---------------------------- MODULE Spec2Model ----------------------------
(***************************************************************************)
(* A model of the botic date/time library: the calendar engine of Date,    *)
(* the carrying arithmetic of Time, the NaiveDateTime <-> Timestamp        *)
(* conversion, and the leap-second registry with the TAI offset policy.    *)
(*                                                                         *)
(* Rust integers keep their width.  `/` and `%` truncate toward zero,      *)
(* `as` casts wrap, and `+ - *` wrap in a release build and panic in a     *)
(* build with overflow checks (the variable overflow_checks).              *)
(***************************************************************************)
EXTENDS Integers, Sequences, FiniteSets, TLC

VARIABLES
    overflow_checks,  \* build profile: TRUE when arithmetic overflow panics
    leap_seconds,     \* GLOBAL_LEAP_SECONDS: the Vec<DateTime<Utc>> inside the lock
    call,             \* the last completed API call, its arguments and outcome
    lock,             \* state of the RwLock around the registry
    threads           \* per-thread position and locals of an API call in flight

vars == <<overflow_checks, leap_seconds, call, lock, threads>>

---------------------------------------------------------------------------
(* Integer arithmetic as Rust computes it *)

\* `a / b` for b > 0: the quotient truncated toward zero
TruncDiv(a, b) == IF a >= 0 THEN a \div b ELSE -((-a) \div b)

\* `a % b` for b > 0: the remainder takes the sign of the dividend
TruncRem(a, b) == a - b * TruncDiv(a, b)

\* `x.is_negative() as isize`
is_negative(x) == IF x < 0 THEN 1 ELSE 0

\* `x as u8`, `x as u16`, `x as i16`
as_u8(x) == x % 256

as_u16(x) == x % 65536

as_i16(x) == ((x + 32768) % 65536) - 32768

---------------------------------------------------------------------------
(* year.rs *)

Year_wrapping_sub(y, rhs) == as_i16(y - rhs)

\* mutant: the rule of the years divisible by 400 is left out
Mut_is_leap_year_no_400(y) == (TruncRem(y, 4) = 0) /\ (TruncRem(y, 100) # 0)

is_leap_year(y) ==
    (TruncRem(y, 4) = 0) /\ ((TruncRem(y, 100) # 0) \/ (TruncRem(y, 400) = 0))

---------------------------------------------------------------------------
(* month.rs: a Month is its number 1..12 (#[repr(u8)]) *)

January == 1
February == 2
December == 12

from_ordinal_common(ordinal) ==
    IF ordinal < 31 THEN 1
    ELSE IF ordinal < 59 THEN 2
    ELSE IF ordinal < 90 THEN 3
    ELSE IF ordinal < 120 THEN 4
    ELSE IF ordinal < 151 THEN 5
    ELSE IF ordinal < 181 THEN 6
    ELSE IF ordinal < 212 THEN 7
    ELSE IF ordinal < 243 THEN 8
    ELSE IF ordinal < 273 THEN 9
    ELSE IF ordinal < 304 THEN 10
    ELSE IF ordinal < 334 THEN 11
    ELSE 12

from_ordinal_leap(ordinal) ==
    IF ordinal < 31 THEN 1
    ELSE IF ordinal < 60 THEN 2
    ELSE IF ordinal < 91 THEN 3
    ELSE IF ordinal < 121 THEN 4
    ELSE IF ordinal < 152 THEN 5
    ELSE IF ordinal < 182 THEN 6
    ELSE IF ordinal < 213 THEN 7
    ELSE IF ordinal < 244 THEN 8
    ELSE IF ordinal < 274 THEN 9
    ELSE IF ordinal < 305 THEN 10
    ELSE IF ordinal < 335 THEN 11
    ELSE 12

from_ordinal(ordinal, leap_year) ==
    IF leap_year THEN from_ordinal_leap(ordinal) ELSE from_ordinal_common(ordinal)

previous(m) == IF m = 1 THEN 12 ELSE m - 1

last_day_ordinal_common(m) ==
    <<31, 59, 90, 120, 151, 181, 212, 243, 273, 304, 334, 365>>[m]

last_day_ordinal_leap(m) ==
    <<31, 60, 91, 121, 152, 182, 213, 244, 274, 305, 335, 366>>[m]

last_day_ordinal(m, leap_year) ==
    IF leap_year THEN last_day_ordinal_leap(m) ELSE last_day_ordinal_common(m)

---------------------------------------------------------------------------
(* date.rs *)

from_ymd_unchecked(year, month, day) == [year |-> year, month |-> month, day |-> day]

UNIX_EPOCH == from_ymd_unchecked(1970, January, 1)

days_after_common_era(d) ==
    LET year == Year_wrapping_sub(d.year, 1)
        leap_years == TruncDiv(year, 4) - TruncDiv(year, 100) + TruncDiv(year, 400)
        month_last_day_ordinal == last_day_ordinal(previous(d.month), is_leap_year(d.year))
    IN  year * 365 + leap_years + month_last_day_ordinal + d.day - 1

\* the locals of from_days_after_common_era up to the u16 subtraction
from_days_locals(days) ==
    LET era == TruncDiv(days, 146097)
        day_of_era == days - (era * 146097)
        year_of_era == TruncDiv(day_of_era, 365)
        year64 == year_of_era + (era * 400)
        ordinal == day_of_era - (365 * year64 + TruncDiv(year64, 4) - TruncDiv(year64, 100))
        year == as_i16(year64)
        month == from_ordinal(as_u16(ordinal), is_leap_year(year))
    IN  [year |-> year, month |-> month, ordinal |-> as_u16(ordinal),
         before |-> last_day_ordinal(previous(month), is_leap_year(year))]

from_days_after_common_era(days) ==
    LET l == from_days_locals(days)
        day == as_u16(l.ordinal - l.before)
    IN  from_ymd_unchecked(l.year, l.month, as_u8(day))

\* `ordinal as u16 - month.previous().last_day_ordinal(..)` overflows u16
from_days_after_common_era_overflows(days) ==
    LET l == from_days_locals(days) IN l.ordinal < l.before

Date_add_days(self, days) ==
    LET total_days_since_ce == days_after_common_era(self) + days
    IN  from_days_after_common_era(total_days_since_ce)

Date_add_days_overflows(self, days) ==
    from_days_after_common_era_overflows(days_after_common_era(self) + days)

\* Ord for Date: lexicographic on (year, month, day)
Date_cmp(a, b) ==
    IF a.year # b.year THEN (IF a.year < b.year THEN -1 ELSE 1)
    ELSE IF a.month # b.month THEN (IF a.month < b.month THEN -1 ELSE 1)
    ELSE IF a.day # b.day THEN (IF a.day < b.day THEN -1 ELSE 1)
    ELSE 0

---------------------------------------------------------------------------
(* time.rs *)

from_hms_nano_unchecked(hour, minute, second, nanosecond) ==
    [hour |-> hour, minute |-> minute, second |-> second, nanosecond |-> nanosecond]

from_hms_unchecked(hour, minute, second) == from_hms_nano_unchecked(hour, minute, second, 0)

MIDNIGHT == from_hms_unchecked(0, 0, 0)

\* the result of every add_<unit>_overflowing is the pair <<time, overflow>>
Time_add_hours_overflowing(self, hours) ==
    LET total_hours0 == self.hour + hours
        overflow == 0 > total_hours0 \/ total_hours0 >= 24
        total_hours == TruncRem(total_hours0, 24) + (24 * is_negative(total_hours0))
    IN  <<[hour |-> as_u8(total_hours), minute |-> self.minute,
           second |-> self.second, nanosecond |-> self.nanosecond], overflow>>

Time_add_minutes_overflowing(self, minutes) ==
    LET total_minutes0 == TruncRem(self.minute + minutes, 60)
        total_minutes == total_minutes0 + (60 * is_negative(total_minutes0))
        added_hours == TruncDiv(self.hour + minutes, 60)
        total_hours0 == self.hour + added_hours
        overflow == 0 > total_hours0 \/ total_hours0 >= 24
        total_hours == TruncRem(total_hours0, 24) + (24 * is_negative(total_hours0))
    IN  <<[hour |-> as_u8(total_hours), minute |-> as_u8(total_minutes),
           second |-> self.second, nanosecond |-> self.nanosecond], overflow>>

Time_add_seconds_overflowing(self, seconds) ==
    LET total_seconds0 == TruncRem(self.second + seconds, 60)
        total_seconds == total_seconds0 + (60 * is_negative(total_seconds0))
        added_minutes == TruncDiv(self.second + seconds, 60)
        total_minutes0 == TruncRem(self.minute + added_minutes, 60)
        total_minutes == total_minutes0 + (60 * is_negative(total_minutes0))
        added_hours == TruncDiv(self.hour + added_minutes, 60)
        total_hours0 == self.hour + added_hours
        overflow == 0 > total_hours0 \/ total_hours0 >= 24
        total_hours == TruncRem(total_hours0, 24) + (24 * is_negative(total_hours0))
    IN  <<[hour |-> as_u8(total_hours), minute |-> as_u8(total_minutes),
           second |-> as_u8(total_seconds), nanosecond |-> self.nanosecond], overflow>>

\* mutant: the hours are carried from the hour field instead of the minute
\* field, as add_seconds_overflowing does
Mut_add_nanoseconds_hour_carry(self, nanoseconds) ==
    LET total_nanos0 == TruncRem(self.nanosecond + nanoseconds, 1000000000)
        total_nanos == total_nanos0 + (1000000000 * is_negative(total_nanos0))
        added_seconds == TruncDiv(self.nanosecond + nanoseconds, 1000000000)
        total_seconds0 == TruncRem(self.second + added_seconds, 60)
        total_seconds == total_seconds0 + (60 * is_negative(total_seconds0))
        added_minutes == TruncDiv(self.second + added_seconds, 60)
        total_minutes0 == TruncRem(self.minute + added_minutes, 60)
        total_minutes == total_minutes0 + (60 * is_negative(total_minutes0))
        added_hours == TruncDiv(self.hour + added_minutes, 60)
        total_hours0 == self.hour + added_hours
        overflow == 0 > total_hours0 \/ total_hours0 >= 24
        total_hours == TruncRem(total_hours0, 24) + (24 * is_negative(total_hours0))
    IN  <<[hour |-> as_u8(total_hours), minute |-> as_u8(total_minutes),
           second |-> as_u8(total_seconds), nanosecond |-> total_nanos], overflow>>

Time_add_nanoseconds_overflowing(self, nanoseconds) ==
    LET total_nanos0 == TruncRem(self.nanosecond + nanoseconds, 1000000000)
        total_nanos == total_nanos0 + (1000000000 * is_negative(total_nanos0))
        added_seconds == TruncDiv(self.nanosecond + nanoseconds, 1000000000)
        total_seconds0 == TruncRem(self.second + added_seconds, 60)
        total_seconds == total_seconds0 + (60 * is_negative(total_seconds0))
        added_minutes == TruncDiv(self.second + added_seconds, 60)
        total_minutes0 == TruncRem(self.minute + added_minutes, 60)
        total_minutes == total_minutes0 + (60 * is_negative(total_minutes0))
        added_hours == TruncDiv(self.minute + added_minutes, 60)
        total_hours0 == self.hour + added_hours
        overflow == 0 > total_hours0 \/ total_hours0 >= 24
        total_hours == TruncRem(total_hours0, 24) + (24 * is_negative(total_hours0))
    IN  <<[hour |-> as_u8(total_hours), minute |-> as_u8(total_minutes),
           second |-> as_u8(total_seconds), nanosecond |-> total_nanos], overflow>>

(* seconds_from_midnight computes, in u32,                                 *)
(*     hour * 3_600_000_000 + minute * 60_000_000 + second * 1_000_000.    *)
(* 2^32 and the first factor exceed the 32-bit integers of TLC, so the u32  *)
(* arithmetic is carried out on the values divided by 64: every term is a  *)
(* multiple of 64 (1_000_000 = 64 * 15_625) and 2^32 = 64 * 2^26, hence    *)
(* (64 * x) mod 2^32 = 64 * (x mod 2^26) and 64 * x > u32::MAX exactly     *)
(* when x >= 2^26.                                                         *)
U32_RANGE_DIV64 == 67108864

seconds_from_midnight_terms(self) ==
    <<self.hour * 56250000, self.minute * 937500, self.second * 15625>>

\* the u32 result of seconds_from_midnight, divided by 64
seconds_from_midnight_div64(self) ==
    LET t == seconds_from_midnight_terms(self)
        hm == ((t[1] % U32_RANGE_DIV64) + (t[2] % U32_RANGE_DIV64)) % U32_RANGE_DIV64
    IN  (hm + (t[3] % U32_RANGE_DIV64)) % U32_RANGE_DIV64

\* some `*` or `+` of seconds_from_midnight overflows u32
seconds_from_midnight_overflows(self) ==
    LET t == seconds_from_midnight_terms(self)
    IN  \/ t[1] >= U32_RANGE_DIV64
        \/ t[2] >= U32_RANGE_DIV64
        \/ t[3] >= U32_RANGE_DIV64
        \/ t[1] + t[2] >= U32_RANGE_DIV64
        \/ t[1] + t[2] + t[3] >= U32_RANGE_DIV64

\* Ord for Time: lexicographic on (hour, minute, second, nanosecond)
Time_cmp(a, b) ==
    IF a.hour # b.hour THEN (IF a.hour < b.hour THEN -1 ELSE 1)
    ELSE IF a.minute # b.minute THEN (IF a.minute < b.minute THEN -1 ELSE 1)
    ELSE IF a.second # b.second THEN (IF a.second < b.second THEN -1 ELSE 1)
    ELSE IF a.nanosecond # b.nanosecond THEN (IF a.nanosecond < b.nanosecond THEN -1 ELSE 1)
    ELSE 0

---------------------------------------------------------------------------
(* timestamp.rs *)

(* Timestamp.seconds is an i64 that can exceed the integers of TLC.  It    *)
(* is held as the pair [days, secs] with value days * 86_400 + secs and    *)
(* 0 <= secs < 86_400; no i64 operation of the model overflows 64 bits.    *)
I64(days, secs) == [days |-> days + (secs \div 86400), secs |-> secs % 86400]

I64_add(x, n) == I64(x.days, x.secs + n)

\* `x / 86_400` and `x % 86_400`, truncated toward zero
I64_div_86400(x) == IF x.days < 0 /\ x.secs > 0 THEN x.days + 1 ELSE x.days

I64_rem_86400(x) == IF x.days < 0 /\ x.secs > 0 THEN x.secs - 86400 ELSE x.secs

Timestamp_new(seconds, nanoseconds) == [seconds |-> seconds, nanoseconds |-> nanoseconds]

\* i64::overflowing_add never wraps at the magnitudes of the model
Timestamp_add_seconds_overflowing(self, seconds) ==
    <<Timestamp_new(I64_add(self.seconds, seconds), self.nanoseconds), FALSE>>

\* `x % 60`, truncated toward zero (86_400 is a multiple of 60)
I64_rem_60(x) == IF x.days < 0 /\ x.secs % 60 > 0 THEN (x.secs % 60) - 60 ELSE x.secs % 60

Timestamp_add_nanoseconds_overflowing(self, nanoseconds) ==
    LET rem == TruncRem(self.nanoseconds + nanoseconds, 1000000000)
        total_nanos == rem + (1000000000 * is_negative(rem))
        added_seconds == TruncDiv(self.nanoseconds + nanoseconds, 1000000000)
        rem_seconds == I64_rem_60(I64_add(self.seconds, added_seconds))
        overflow == 0 > rem_seconds
        total_seconds == rem_seconds + (60 * is_negative(rem_seconds))
    IN  <<Timestamp_new(I64(0, total_seconds), total_nanos), overflow>>

---------------------------------------------------------------------------
(* datetime.rs: NaiveDateTime *)

NaiveDateTime_new(date, time) == [date |-> date, time |-> time]

UNIX_EPOCH_DAYS == days_after_common_era(UNIX_EPOCH)

timestamp(self) ==
    LET days == days_after_common_era(self.date) - UNIX_EPOCH_DAYS
        sfm == seconds_from_midnight_div64(self.time)
        \* days * 86_400 + sfm * 64, and 86_400 = 64 * 1350
        seconds == I64(days + (sfm \div 1350), 64 * (sfm % 1350))
    IN  Timestamp_new(seconds, self.time.nanosecond)

timestamp_overflows(self) == seconds_from_midnight_overflows(self.time)


\* mutant: the day count of the Unix epoch is not added back
Mut_from_timestamp_no_epoch(ts) ==
    LET date == from_days_after_common_era(I64_div_86400(ts.seconds))
        time == Time_add_nanoseconds_overflowing(
                    Time_add_seconds_overflowing(MIDNIGHT, I64_rem_86400(ts.seconds))[1],
                    ts.nanoseconds)[1]
    IN  NaiveDateTime_new(date, time)

from_timestamp(ts) ==
    LET days_after_unix_epoch == I64_div_86400(ts.seconds)
        days_after_ce == days_after_unix_epoch + UNIX_EPOCH_DAYS
        date == from_days_after_common_era(days_after_ce)
        seconds_after_midnight == I64_rem_86400(ts.seconds)
        time == Time_add_nanoseconds_overflowing(
                    Time_add_seconds_overflowing(MIDNIGHT, seconds_after_midnight)[1],
                    ts.nanoseconds)[1]
    IN  NaiveDateTime_new(date, time)

from_timestamp_overflows(ts) ==
    from_days_after_common_era_overflows(I64_div_86400(ts.seconds) + UNIX_EPOCH_DAYS)

\* each `let` of the body is bound to its value once
NaiveDateTime_add_seconds_overflowing(self, seconds) ==
    CHOOSE result \in
        { <<from_timestamp(r[1]), r[2]>> :
              r \in { Timestamp_add_seconds_overflowing(ts, seconds) :
                          ts \in { timestamp(self) } } } : TRUE

NaiveDateTime_add_seconds_overflows(self, seconds) ==
    \/ timestamp_overflows(self)
    \/ \E ts \in { timestamp(self) } :
           \E r \in { Timestamp_add_seconds_overflowing(ts, seconds) } :
              from_timestamp_overflows(r[1])

NaiveDateTime_add_nanoseconds_overflowing(self, nanoseconds) ==
    CHOOSE result \in
        { <<from_timestamp(r[1]), r[2]>> :
              r \in { Timestamp_add_nanoseconds_overflowing(ts, nanoseconds) :
                          ts \in { timestamp(self) } } } : TRUE

NaiveDateTime_add_nanoseconds_overflows(self, nanoseconds) ==
    \/ timestamp_overflows(self)
    \/ \E ts \in { timestamp(self) } :
           \E r \in { Timestamp_add_nanoseconds_overflowing(ts, nanoseconds) } :
              from_timestamp_overflows(r[1])

\* Ord for NaiveDateTime: the date, then the time
NaiveDateTime_cmp(a, b) ==
    IF Date_cmp(a.date, b.date) # 0 THEN Date_cmp(a.date, b.date)
    ELSE Time_cmp(a.time, b.time)

---------------------------------------------------------------------------
(* timezone.rs and datetime.rs: UtcOffset, DateTime<Tz> *)

Utc == [zone |-> "Utc"]

Tai == [zone |-> "Tai"]

UtcOffset_from_seconds(seconds) == [zone |-> "UtcOffset", offset_seconds |-> seconds]

seconds_ahead(offset) == offset.offset_seconds

DateTime_from_utc(utc_datetime, timezone) ==
    [utc_datetime |-> utc_datetime, timezone |-> timezone]

into_timezone(self, timezone) == DateTime_from_utc(self.utc_datetime, timezone)

as_utc(self) == into_timezone(self, Utc)

naive_utc(self) == self.utc_datetime

\* Ord / PartialOrd for DateTime: only the UTC reference is compared
DateTime_cmp(a, b) == NaiveDateTime_cmp(a.utc_datetime, b.utc_datetime)

\* PartialOrd<DateTime<Other>>: always Some, of the ordering of the references
DateTime_partial_cmp(a, b) == NaiveDateTime_cmp(a.utc_datetime, b.utc_datetime)

\* mutant: equality also compares the time zones
Mut_DateTime_eq_with_timezone(a, b) ==
    a.utc_datetime = b.utc_datetime /\ a.timezone = b.timezone

\* PartialEq<DateTime<Other>>
DateTime_eq(a, b) == a.utc_datetime = b.utc_datetime

\* derived Hash of NaiveDateTime: the fields of the Date, then of the Time,
\* written to the hasher in declaration order
NaiveDateTime_hash(self) ==
    <<self.date.year, self.date.month, self.date.day,
      self.time.hour, self.time.minute, self.time.second, self.time.nanosecond>>

\* Hash for DateTime: what hash() feeds to the hasher
DateTime_hash(self) == NaiveDateTime_hash(self.utc_datetime)

\* the outcome of a call: a value, a typed error, or a panic
Ok(v) == [kind |-> "Ok", value |-> v]

Err(e) == [kind |-> "Err", value |-> e]

Panicked == [kind |-> "panic", value |-> <<>>]

\* Option
Some(v) == [kind |-> "Some", value |-> v]

None == [kind |-> "None", value |-> <<>>]

---------------------------------------------------------------------------
(* time.rs: the validated constructors and the accessors *)

InvalidTimeError_new_unchecked(hour, minute, second, nanosecond) ==
    [hour |-> hour, minute |-> minute, second |-> second, nanosecond |-> nanosecond]

\* mutant: a second of 60 is accepted at any hour and minute
Mut_from_hms_nano_leap_anywhere(hour, minute, second, nanosecond) ==
    IF hour >= 24 \/ minute >= 60 \/ second > 60 \/ nanosecond >= 1000000000
    THEN Err(InvalidTimeError_new_unchecked(hour, minute, second, nanosecond))
    ELSE Ok(from_hms_unchecked(hour, minute, second))

from_hms_nano(hour, minute, second, nanosecond) ==
    IF hour >= 24
    THEN Err(InvalidTimeError_new_unchecked(hour, minute, second, nanosecond))
    ELSE IF minute >= 60
    THEN Err(InvalidTimeError_new_unchecked(hour, minute, second, nanosecond))
    ELSE IF second > 60
    THEN Err(InvalidTimeError_new_unchecked(hour, minute, second, nanosecond))
    ELSE IF nanosecond >= 1000000000
    THEN Err(InvalidTimeError_new_unchecked(hour, minute, second, nanosecond))
    ELSE IF second = 60 /\ (minute # 59 \/ hour # 23)
    THEN Err(InvalidTimeError_new_unchecked(hour, minute, second, nanosecond))
    ELSE Ok(from_hms_unchecked(hour, minute, second))

from_hms_milli_unchecked(hour, minute, second, millisecond) ==
    [hour |-> hour, minute |-> minute, second |-> second,
     nanosecond |-> millisecond * 1000000]

\* `millisecond as u32 * 1000` cannot overflow: millisecond is a u16
from_hms_milli(hour, minute, second, millisecond) ==
    from_hms_nano(hour, minute, second, millisecond * 1000)

from_hms_micro_unchecked(hour, minute, second, microsecond) ==
    [hour |-> hour, minute |-> minute, second |-> second,
     nanosecond |-> microsecond * 1000]

\* `microsecond * 1_000_000` in u32, computed on the values divided by 64 as
\* for seconds_from_midnight (1_000_000 = 64 * 15_625); the microseconds of
\* the model keep the wrapped product below 2^31
from_hms_micro(hour, minute, second, microsecond) ==
    from_hms_nano(hour, minute, second, 64 * ((microsecond * 15625) % U32_RANGE_DIV64))

from_hms_micro_overflows(microsecond) == microsecond * 15625 >= U32_RANGE_DIV64

Time_millisecond(self) == as_u16(self.nanosecond \div 1000000)

Time_microsecond(self) == self.nanosecond \div 1000

Time_nanosecond(self) == self.nanosecond

---------------------------------------------------------------------------
(* time.rs: the four presentations of the add operations.  The methods of  *)
(* the four units differ only in the add_<unit>_overflowing they call, so  *)
(* each presentation is one operator with the unit as its first argument.  *)

Time_add_overflowing(unit, self, delta) ==
    CASE unit = "hours" -> Time_add_hours_overflowing(self, delta)
      [] unit = "minutes" -> Time_add_minutes_overflowing(self, delta)
      [] unit = "seconds" -> Time_add_seconds_overflowing(self, delta)
      [] unit = "nanoseconds" -> Time_add_nanoseconds_overflowing(self, delta)

\* mutant: the overflow flag is not looked at
Mut_add_checked_ignores_flag(unit, self, delta) ==
    Some(Time_add_overflowing(unit, self, delta)[1])

Time_add_checked(unit, self, delta) ==
    LET r == Time_add_overflowing(unit, self, delta)
        time == r[1]
        overflow == r[2]
    IN  IF overflow THEN None ELSE Some(time)

Time_add_wrapping(unit, self, delta) == Time_add_overflowing(unit, self, delta)[1]

\* the plain add_<unit>: unwrap_or_else(|| panic!(..)) of the checked result
Time_add(unit, self, delta) ==
    LET r == Time_add_checked(unit, self, delta)
    IN  IF r.kind = "Some" THEN Ok(r.value) ELSE Panicked

\* impl From<Timestamp> for NaiveDateTime: as from_timestamp, with the plain
\* add_seconds and add_nanoseconds, which panic when the flag is set
NaiveDateTime_from(ts) ==
    LET days_after_unix_epoch == I64_div_86400(ts.seconds)
        days_after_ce == days_after_unix_epoch + UNIX_EPOCH_DAYS
        date == from_days_after_common_era(days_after_ce)
        seconds_after_midnight == I64_rem_86400(ts.seconds)
        added == Time_add("seconds", MIDNIGHT, seconds_after_midnight)
        time == IF added.kind = "Ok"
                THEN Time_add("nanoseconds", added.value, ts.nanoseconds)
                ELSE Panicked
    IN  IF time.kind = "Ok" THEN Ok(NaiveDateTime_new(date, time.value)) ELSE Panicked

---------------------------------------------------------------------------
(* year.rs, month.rs and date.rs: the addition of years and months *)

\* Add<I> for Year: `self.0 + rhs.into()` in i16
Year_add(self, rhs) == as_i16(self + rhs)

Year_add_overflows(self, rhs) == self + rhs < -32768 \/ self + rhs > 32767

\* Month::days(leap_year) is called by Date::add_months and is not among the
\* sources: the greatest day of the month, February's depending on the year
Month_days(month, leap_year) ==
    CASE month = February -> IF leap_year THEN 29 ELSE 28
      [] month \in { 4, 6, 9, 11 } -> 30
      [] OTHER -> 31

\* Month::add_overflowing(months) is called by Date::add_months and is not
\* among the sources: the month `months` months later and the years passed
Month_add_overflowing(month, months) ==
    LET index == (month - 1) + months
    IN  <<(index % 12) + 1, index \div 12>>

LeapDayNotInLeapYearError(year) == <<year>>

DayGreaterThanMaximumForMonthError(month, given_day, month_max_day) ==
    [month |-> month, given_day |-> given_day, month_max_day |-> month_max_day]

Date_add_years(self, years) ==
    LET year == Year_add(self.year, years)
    IN  IF self.day = 29 /\ self.month = February /\ ~is_leap_year(year)
        THEN Err(LeapDayNotInLeapYearError(self.year))
        ELSE Ok([year |-> year, month |-> self.month, day |-> self.day])

\* mutant: the greatest day is that of the month in the year of self
Mut_add_months_leap_of_self(self, months) ==
    LET r == Month_add_overflowing(self.month, months)
        month == r[1]
        years_to_add == r[2]
        year == Year_add(self.year, years_to_add)
        max_days_for_month == Month_days(month, is_leap_year(self.year))
    IN  IF self.day > max_days_for_month
        THEN Err(DayGreaterThanMaximumForMonthError(month, self.day, max_days_for_month))
        ELSE Ok([year |-> year, month |-> month, day |-> self.day])

Date_add_months(self, months) ==
    LET r == Month_add_overflowing(self.month, months)
        month == r[1]
        years_to_add == r[2]
        year == Year_add(self.year, years_to_add)
        max_days_for_month == Month_days(month, is_leap_year(year))
    IN  IF self.day > max_days_for_month
        THEN Err(DayGreaterThanMaximumForMonthError(month, self.day, max_days_for_month))
        ELSE Ok([year |-> year, month |-> month, day |-> self.day])

\* `self.year + years_to_add` overflows i16
Date_add_months_overflows(self, months) ==
    Year_add_overflows(self.year, Month_add_overflowing(self.month, months)[2])

---------------------------------------------------------------------------
(* tai.rs: LeapSeconds, the registry content *)

LeapSeconds_empty == <<>>

\* the `for` loop of leap_seconds_before_inclusive from element i on
RECURSIVE count_from(_, _, _, _)
count_from(self, date_time, i, seconds) ==
    IF i > Len(self) THEN seconds
    ELSE IF DateTime_cmp(self[i], date_time) > 0 THEN seconds
    ELSE count_from(self, date_time, i + 1, seconds + 1)


\* mutant: the scan breaks on `>=`, so an entry equal to date_time is not counted
Mut_leap_seconds_before_exclusive(self, date_time) ==
    Cardinality({ i \in 1 .. Len(self) : DateTime_cmp(self[i], date_time) < 0 })

leap_seconds_before_inclusive(self, date_time) == count_from(self, date_time, 1, 0)

\* what add_leap_second compares and inserts: midnight UTC of the day
exact_time_of(day) == DateTime_from_utc(NaiveDateTime_new(day, MIDNIGHT), Utc)

\* the `while` loop of add_leap_second from index i on (1-based): the
\* insertion index, or 0 when an equal entry makes the method return early
RECURSIVE insertion_point(_, _, _)
insertion_point(self, exact_time, i) ==
    IF i > Len(self) THEN i
    ELSE IF DateTime_cmp(self[i], exact_time) > 0 THEN i
    ELSE IF DateTime_cmp(self[i], exact_time) = 0 THEN 0
    ELSE insertion_point(self, exact_time, i + 1)

\* Vec::insert(i, element), i 1-based
Vec_insert(v, i, element) == SubSeq(v, 1, i - 1) \o <<element>> \o SubSeq(v, i, Len(v))


\* mutant: the new entry is pushed at the end instead of inserted at i
Mut_add_leap_second_push(self, day) ==
    LET exact_time == exact_time_of(day)
        i == insertion_point(self, exact_time, 1)
    IN  IF i = 0 THEN self ELSE Append(self, exact_time)

\* mutant: an equal entry ends the scan with `break` instead of `return`
Mut_add_leap_second_again(self, day) ==
    LET exact_time == exact_time_of(day)
        at == { i \in 1 .. Len(self) : DateTime_cmp(self[i], exact_time) >= 0 }
        i == IF at = {} THEN Len(self) + 1 ELSE CHOOSE k \in at : \A l \in at : k <= l
    IN  Vec_insert(self, i, exact_time)

LeapSeconds_add_leap_second(self, day) ==
    LET exact_time == exact_time_of(day)
        i == insertion_point(self, exact_time, 1)
    IN  IF i = 0 THEN self ELSE Vec_insert(self, i, exact_time)

---------------------------------------------------------------------------
(* tai.rs: impl TimeZone for Tai, evaluated on the registry content it    *)
(* reads under the shared lock                                             *)

TAI_BASE_OFFSET == 10

Tai_utc_offset(registry, date_time) ==
    LET past_leap_seconds == leap_seconds_before_inclusive(registry, date_time)
    IN  UtcOffset_from_seconds(-(past_leap_seconds + TAI_BASE_OFFSET))

\* one pass of the body of the `while` loop: the next past_leap_seconds
recount(registry, date_time, past_leap_seconds) ==
    LET ndt == NaiveDateTime_add_seconds_overflowing(date_time, past_leap_seconds)[1]
        utc_dt == DateTime_from_utc(ndt, Utc)
    IN  leap_seconds_before_inclusive(registry, utc_dt)

\* the `while past_leap_seconds != prev_pls` loop: the final past_leap_seconds
\* (or a panic) and, in counts, every value past_leap_seconds takes
RECURSIVE fixed_point(_, _, _, _, _, _)
fixed_point(checks, registry, date_time, past_leap_seconds, prev_pls, counts) ==
    IF past_leap_seconds = prev_pls
    THEN [outcome |-> Ok(past_leap_seconds), counts |-> counts]
    ELSE IF checks /\ NaiveDateTime_add_seconds_overflows(date_time, past_leap_seconds)
    THEN [outcome |-> Panicked, counts |-> counts]
    ELSE CHOOSE result \in
             { fixed_point(checks, registry, date_time, next, past_leap_seconds,
                           Append(counts, next)) :
               next \in { recount(registry, date_time, past_leap_seconds) } } : TRUE


\* mutant: the check of a second field of 60 is left out
Mut_offset_from_local_naive_no_leap_check(checks, registry, date_time) ==
    LET utc_dt == DateTime_from_utc(date_time, Utc)
        seed == leap_seconds_before_inclusive(registry, utc_dt)
        loop == fixed_point(checks, registry, date_time, seed, 0, <<seed>>)
    IN  IF loop.outcome.kind = "panic" THEN loop
        ELSE [outcome |-> Ok(UtcOffset_from_seconds(
                                 -(loop.outcome.value + TAI_BASE_OFFSET))),
              counts |-> loop.counts]

\* mutant: the fixed 10 second base of TAI is left out of the result
Mut_offset_from_local_naive_no_base(checks, registry, date_time) ==
    IF date_time.time.second = 60
    THEN [outcome |-> Err([given_dt |-> date_time]), counts |-> <<>>]
    ELSE LET utc_dt == DateTime_from_utc(date_time, Utc)
             seed == leap_seconds_before_inclusive(registry, utc_dt)
             loop == fixed_point(checks, registry, date_time, seed, 0, <<seed>>)
         IN  IF loop.outcome.kind = "panic" THEN loop
             ELSE [outcome |-> Ok(UtcOffset_from_seconds(-loop.outcome.value)),
                   counts |-> loop.counts]

\* the result is [outcome, counts]
Tai_offset_from_local_naive(checks, registry, date_time) ==
    IF date_time.time.second = 60
    THEN [outcome |-> Err([given_dt |-> date_time]), counts |-> <<>>]
    ELSE CHOOSE result \in
             { IF loop.outcome.kind = "panic" THEN loop
               ELSE [outcome |-> Ok(UtcOffset_from_seconds(
                                        -(loop.outcome.value + TAI_BASE_OFFSET))),
                     counts |-> loop.counts] :
               loop \in { fixed_point(checks, registry, date_time, seed, 0, <<seed>>) :
                          seed \in { leap_seconds_before_inclusive(
                                         registry, DateTime_from_utc(date_time, Utc)) } } } :
             TRUE

\* DateTime::offset for a DateTime<Tai>
Tai_offset(registry, self) == Tai_utc_offset(registry, as_utc(self))

\* DateTime::to_naive_overflowing for a DateTime<Tai>
Tai_to_naive_overflowing(registry, self) ==
    NaiveDateTime_add_seconds_overflowing(self.utc_datetime,
                                          seconds_ahead(Tai_offset(registry, self)))

Tai_to_naive_overflows(registry, self) ==
    NaiveDateTime_add_seconds_overflows(self.utc_datetime,
                                        seconds_ahead(Tai_offset(registry, self)))

\* DateTime::from_local(local_datetime, Tai)
Tai_from_local(checks, registry, local_datetime) ==
    CHOOSE result \in
        { IF offset.kind # "Ok" THEN offset
          ELSE IF checks /\ NaiveDateTime_add_seconds_overflows(
                                local_datetime, -seconds_ahead(offset.value))
          THEN Panicked
          ELSE Ok(DateTime_from_utc(
                   NaiveDateTime_add_seconds_overflowing(
                       local_datetime, -seconds_ahead(offset.value))[1], Tai)) :
          offset \in { Tai_offset_from_local_naive(checks, registry,
                                                   local_datetime).outcome } } : TRUE

\* DateTime::tai_timestamp: the timestamp of the local time of self.as_tai()
DateTime_tai_timestamp(registry, self) ==
    CHOOSE result \in
        { timestamp(naive) :
          naive \in { Tai_to_naive_overflowing(registry, into_timezone(self, Tai))[1] } } :
        TRUE

DateTime_tai_timestamp_overflows(registry, self) ==
    \/ Tai_to_naive_overflows(registry, into_timezone(self, Tai))
    \/ \E naive \in { Tai_to_naive_overflowing(registry, into_timezone(self, Tai))[1] } :
           timestamp_overflows(naive)

\* DateTime::add_seconds_overflowing; the unwrap turns the error of from_local
\* into a panic
DateTime_add_seconds_overflowing(checks, registry, self, seconds) ==
    IF checks /\ DateTime_tai_timestamp_overflows(registry, self) THEN Panicked
    ELSE CHOOSE result \in
             { IF checks /\ from_timestamp_overflows(sum[1]) THEN Panicked
               ELSE CHOOSE converted \in
                        { IF tai_dt.kind # "Ok" THEN Panicked
                          ELSE Ok(<<into_timezone(tai_dt.value, self.timezone), sum[2]>>) :
                          tai_dt \in { Tai_from_local(checks, registry, tai_naive_dt) :
                                       tai_naive_dt \in { from_timestamp(sum[1]) } } } :
                        TRUE :
               sum \in { Timestamp_add_seconds_overflowing(tai_timestamp, seconds) :
                         tai_timestamp \in { DateTime_tai_timestamp(registry, self) } } } :
             TRUE

---------------------------------------------------------------------------
(* The inputs of the model *)

FirstYear == 1999

NumYears == 3

NumLeapDays == 3

MaxMonths == 13

MaxDaysBefore == 2

MaxYears == 4

Years == FirstYear .. (FirstYear + NumYears - 1)

\* the number of days of a month: the difference of two last-day ordinals
MaxDay(year, month) ==
    last_day_ordinal(month, is_leap_year(year))
        - (IF month = January THEN 0
           ELSE last_day_ordinal(month - 1, is_leap_year(year)))

\* every valid Date of the years of the model
Dates ==
    UNION { UNION { { from_ymd_unchecked(y, m, d) : d \in 1 .. MaxDay(y, m) }
                    : m \in 1 .. 12 } : y \in Years }

\* dates of leap and common years outside the years of the model
ExampleDates ==
    { from_ymd_unchecked(2020, January, 31), from_ymd_unchecked(2021, January, 31),
      from_ymd_unchecked(2020, February, 29) }

\* the dates months and years are added to
AddendDates == Dates \cup ExampleDates

\* every 16-bit year
YearInputs == { [year |-> y] : y \in (-32768) .. 32767 }

\* the day counts added to a date: within a year, and one that leads past
\* the last day of the year 32767
DayCounts == { -366, -1, 0, 1, 31, 365, 11300000 }

\* valid times with second <= 59
PlainTimes ==
    { from_hms_unchecked(0, 0, 0), from_hms_unchecked(0, 0, 1),
      from_hms_nano_unchecked(12, 30, 15, 500000000),
      from_hms_nano_unchecked(23, 59, 59, 999999999) }

\* the days add_leap_second is called with
CandidateLeapDays ==
    << from_ymd_unchecked(2000, January, 1), from_ymd_unchecked(2000, February, 1),
       from_ymd_unchecked(1999, December, 31), from_ymd_unchecked(2000, December, 31),
       from_ymd_unchecked(1999, 6, 30) >>

LeapDays == { CandidateLeapDays[i] : i \in 1 .. NumLeapDays }

\* the date-times the TAI policy is queried with
QueryDates ==
    LeapDays \cup { from_ymd_unchecked(2000, January, 2), from_ymd_unchecked(2000, 3, 1),
                    from_ymd_unchecked(2000, 6, 1) }

QueryTimes ==
    { from_hms_unchecked(0, 0, 0), from_hms_unchecked(0, 0, 1),
      from_hms_unchecked(23, 59, 59), from_hms_unchecked(23, 59, 60) }

Instants == { NaiveDateTime_new(d, t) : d \in QueryDates, t \in QueryTimes }

\* the time zones DateTime values are built in
Zones == { Utc, UtcOffset_from_seconds(18000), Tai }

\* the addends of DateTime::add_seconds_overflowing
AddedSeconds == { 0, 1 }

\* every content the registry can have: the midnights of some of the days
\* add_leap_second is called with, in increasing order
Registries ==
    { registry \in UNION { [1 .. n -> { exact_time_of(day) : day \in LeapDays }] :
                            n \in 0 .. Cardinality(LeapDays) } :
        \A i \in 1 .. (Len(registry) - 1) :
            DateTime_cmp(registry[i], registry[i + 1]) < 0 }

\* DateTime::add_seconds_overflowing of every input of the model over every
\* such registry, each computed once
add_seconds_overflowing_table ==
    [p \in { <<checks, registry, DateTime_from_utc(utc, timezone), seconds>> :
                 checks \in BOOLEAN, registry \in Registries,
                 utc \in Instants, timezone \in Zones, seconds \in AddedSeconds } |->
        DateTime_add_seconds_overflowing(p[1], p[2], p[3], p[4])]

\* the UTC references of the right-hand sides of comparisons
CompareInstants ==
    { NaiveDateTime_new(d, t) : d \in { CandidateLeapDays[1], CandidateLeapDays[2] },
                                t \in { from_hms_unchecked(0, 0, 1),
                                        from_hms_unchecked(23, 59, 59) } }

---------------------------------------------------------------------------
(* The state machine of the API, one action per call.  call holds the last *)
(* call: op names it, arg is its argument, res its outcome, and input is   *)
(* what the chain of calls it belongs to started from.                     *)

\* the input of a call that starts a chain of its own
NoInput == [none |-> TRUE]

NoCall == [op |-> "none", input |-> NoInput, arg |-> <<>>, res |-> <<>>]

NoLock == [readers |-> 0, writer |-> FALSE]

Init ==
    /\ overflow_checks \in BOOLEAN
    /\ leap_seconds = LeapSeconds_empty
    /\ call = NoCall
    /\ lock = NoLock
    /\ threads = <<>>

\* tai::add_leap_second(day); input keeps the registry as it was before
AddLeapSecond(day) ==
    /\ leap_seconds' = LeapSeconds_add_leap_second(leap_seconds, day)
    /\ call' = [op |-> "add_leap_second", input |-> leap_seconds, arg |-> day,
                res |-> <<>>]
    /\ UNCHANGED <<overflow_checks, lock, threads>>

\* Tai.utc_offset(date_time)
UtcOffset(date_time) ==
    /\ call' = [op |-> "utc_offset", input |-> NoInput, arg |-> date_time,
                res |-> Ok(Tai_utc_offset(leap_seconds, DateTime_from_utc(date_time, Utc)))]
    /\ UNCHANGED <<overflow_checks, leap_seconds, lock, threads>>

\* DateTime::from_utc(utc, Tai).to_naive_overflowing()
ToNaiveOverflowing(utc) ==
    LET self == DateTime_from_utc(utc, Tai)
    IN  /\ call' = [op |-> "to_naive_overflowing", input |-> utc, arg |-> self,
                    res |-> IF overflow_checks /\ Tai_to_naive_overflows(leap_seconds, self)
                            THEN Panicked
                            ELSE Ok(Tai_to_naive_overflowing(leap_seconds, self))]
        /\ UNCHANGED <<overflow_checks, leap_seconds, lock, threads>>

\* Tai.offset_from_local_naive(date_time); res is [outcome, counts]
OffsetFromLocalNaive(date_time, input) ==
    /\ call' = [op |-> "offset_from_local_naive", input |-> input, arg |-> date_time,
                res |-> Tai_offset_from_local_naive(overflow_checks, leap_seconds,
                                                    date_time)]
    /\ UNCHANGED <<overflow_checks, leap_seconds, lock, threads>>

\* offset_from_local_naive on the local time the previous call produced
OffsetFromLocalOfResult ==
    /\ call.op = "to_naive_overflowing"
    /\ call.res.kind = "Ok"
    /\ OffsetFromLocalNaive(call.res.value[1], call.input)

\* x.add_seconds_overflowing(seconds), x the DateTime of utc in the zone
AddSecondsOverflowing(utc, timezone, seconds) ==
    LET x == DateTime_from_utc(utc, timezone)
        key == <<overflow_checks, leap_seconds, x, seconds>>
    IN  /\ call' = [op |-> "add_seconds_overflowing", input |-> x, arg |-> seconds,
                    res |-> IF key \in DOMAIN add_seconds_overflowing_table
                            THEN add_seconds_overflowing_table[key]
                            ELSE DateTime_add_seconds_overflowing(
                                     overflow_checks, leap_seconds, x, seconds)]
        /\ UNCHANGED <<overflow_checks, leap_seconds, lock, threads>>

Next ==
    \/ \E u \in Instants, z \in Zones, seconds \in AddedSeconds :
          AddSecondsOverflowing(u, z, seconds)
    \/ \E day \in LeapDays : AddLeapSecond(day)
    \/ \E u \in Instants : UtcOffset(u)
    \/ \E u \in Instants : ToNaiveOverflowing(u)
    \/ \E local \in Instants : OffsetFromLocalNaive(local, NoInput)
    \/ OffsetFromLocalOfResult

Spec == Init /\ [][Next]_vars

---------------------------------------------------------------------------
(* The pure conversions: the initial state draws the input, the actions    *)
(* apply one function each to the result of the previous one.              *)

NaiveDateTimes == { NaiveDateTime_new(d, t) : d \in Dates, t \in PlainTimes }

DateTimes == { DateTime_from_utc(x, z) : x \in Instants, z \in Zones }

\* timestamps of up to MaxDaysBefore days and a part of a day before the epoch
NegativeTimestamps ==
    { Timestamp_new(I64(0, -(q * 86400 + r)), ns) :
        q \in 0 .. MaxDaysBefore, r \in { 0, 1, 60, 3601, 86399 },
        ns \in { 0, 999999999 } }
    \ { Timestamp_new(I64(0, 0), ns) : ns \in { 0, 999999999 } }

\* timestamps at and after the epoch, below and above one minute
PositiveTimestamps ==
    { Timestamp_new(I64(0, s), ns) : s \in { 0, 59, 60, 86400 }, ns \in { 0, 999999999 } }

\* the nanoseconds added to a timestamp: none, one, one second, either way
NanosecondDeltas == { -1000000000, -1, 0, 1, 1000000000 }

InitCalendar ==
    /\ overflow_checks \in BOOLEAN
    /\ leap_seconds = LeapSeconds_empty
    /\ call \in { [op |-> "input", input |-> x, arg |-> <<>>, res |-> Ok(x)]
                  : x \in AddendDates \cup NaiveDateTimes \cup DateTimes
                        \cup NegativeTimestamps \cup PositiveTimestamps
                        \cup YearInputs }
    /\ lock = NoLock
    /\ threads = <<>>

\* Date::days_after_common_era(date)
DaysAfterCommonEra ==
    /\ call.op = "input"
    /\ call.input \in Dates
    /\ call' = [op |-> "days_after_common_era", input |-> call.input,
                arg |-> call.input, res |-> Ok(days_after_common_era(call.input))]
    /\ UNCHANGED <<overflow_checks, leap_seconds, lock, threads>>

\* Date::from_days_after_common_era(days)
FromDaysAfterCommonEra ==
    /\ call.op = "days_after_common_era"
    /\ call' = [op |-> "from_days_after_common_era", input |-> call.input,
                arg |-> call.res.value,
                res |-> IF overflow_checks
                           /\ from_days_after_common_era_overflows(call.res.value)
                        THEN Panicked
                        ELSE Ok(from_days_after_common_era(call.res.value))]
    /\ UNCHANGED <<overflow_checks, leap_seconds, lock, threads>>

\* NaiveDateTime::timestamp(t)
TimestampOf ==
    /\ call.op = "input"
    /\ call.input \in NaiveDateTimes
    /\ call' = [op |-> "timestamp", input |-> call.input, arg |-> call.input,
                res |-> IF overflow_checks /\ timestamp_overflows(call.input)
                        THEN Panicked
                        ELSE Ok(timestamp(call.input))]
    /\ UNCHANGED <<overflow_checks, leap_seconds, lock, threads>>

\* NaiveDateTime::from_timestamp(timestamp)
FromTimestamp ==
    /\ call.op = "timestamp"
    /\ call.res.kind = "Ok"
    /\ call' = [op |-> "from_timestamp", input |-> call.input, arg |-> call.res.value,
                res |-> IF overflow_checks /\ from_timestamp_overflows(call.res.value)
                        THEN Panicked
                        ELSE Ok(from_timestamp(call.res.value))]
    /\ UNCHANGED <<overflow_checks, leap_seconds, lock, threads>>

\* a.into_timezone(timezone)
IntoTimezone(timezone) ==
    /\ call.op = "input"
    /\ call.input \in DateTimes
    /\ call' = [op |-> "into_timezone", input |-> call.input, arg |-> timezone,
                res |-> Ok(into_timezone(call.input, timezone))]
    /\ UNCHANGED <<overflow_checks, leap_seconds, lock, threads>>

\* a == b, a.partial_cmp(&b) and the hashes of a and b
Compare(a, b) ==
    /\ call' = [op |-> "compare", input |-> a, arg |-> <<a, b>>,
                res |-> [eq |-> DateTime_eq(a, b),
                         partial_cmp |-> DateTime_partial_cmp(a, b),
                         hashes |-> <<DateTime_hash(a), DateTime_hash(b)>>]]
    /\ UNCHANGED <<overflow_checks, leap_seconds, lock, threads>>

\* a compared with a DateTime of another reference or zone
CompareWithOther ==
    /\ call.op = "input"
    /\ call.input \in DateTimes
    /\ \E y \in CompareInstants, zy \in Zones :
           Compare(call.input, DateTime_from_utc(y, zy))

\* a compared with the a.into_timezone(z) of the previous call
CompareWithConverted ==
    /\ call.op = "into_timezone"
    /\ Compare(call.input, call.res.value)

\* Date::add_years(date, years)
AddYears(years) ==
    /\ call.op = "input"
    /\ call.input \in AddendDates
    /\ call' = [op |-> "add_years", input |-> call.input, arg |-> years,
                res |-> IF overflow_checks /\ Year_add_overflows(call.input.year, years)
                        THEN Panicked
                        ELSE Date_add_years(call.input, years)]
    /\ UNCHANGED <<overflow_checks, leap_seconds, lock, threads>>

\* Date::add_months(date, months)
AddMonths(months) ==
    /\ call.op = "input"
    /\ call.input \in AddendDates
    /\ call' = [op |-> "add_months", input |-> call.input, arg |-> months,
                res |-> IF overflow_checks /\ Date_add_months_overflows(call.input, months)
                        THEN Panicked
                        ELSE Date_add_months(call.input, months)]
    /\ UNCHANGED <<overflow_checks, leap_seconds, lock, threads>>

\* NaiveDateTime::from_timestamp(timestamp) of a timestamp given as input
FromTimestampOfInput ==
    /\ call.op = "input"
    /\ call.input \in NegativeTimestamps
    /\ call' = [op |-> "from_timestamp_of_input", input |-> call.input,
                arg |-> call.input,
                res |-> IF overflow_checks /\ from_timestamp_overflows(call.input)
                        THEN Panicked
                        ELSE Ok(from_timestamp(call.input))]
    /\ UNCHANGED <<overflow_checks, leap_seconds, lock, threads>>

\* NaiveDateTime::from(timestamp)
NaiveDateTimeFrom ==
    /\ call.op = "input"
    /\ call.input \in NegativeTimestamps
    /\ call' = [op |-> "from", input |-> call.input, arg |-> call.input,
                res |-> IF overflow_checks /\ from_timestamp_overflows(call.input)
                        THEN Panicked
                        ELSE NaiveDateTime_from(call.input)]
    /\ UNCHANGED <<overflow_checks, leap_seconds, lock, threads>>

\* Date::add_days(date, days)
AddDays(days) ==
    /\ call.op = "input"
    /\ call.input \in AddendDates
    /\ call' = [op |-> "add_days", input |-> call.input, arg |-> days,
                res |-> IF overflow_checks /\ Date_add_days_overflows(call.input, days)
                        THEN Panicked
                        ELSE Ok(Date_add_days(call.input, days))]
    /\ UNCHANGED <<overflow_checks, leap_seconds, lock, threads>>

\* Year::is_leap_year(year)
IsLeapYear ==
    /\ call.op = "input"
    /\ call.input \in YearInputs
    /\ call' = [op |-> "is_leap_year", input |-> call.input, arg |-> call.input,
                res |-> Ok(is_leap_year(call.input.year))]
    /\ UNCHANGED <<overflow_checks, leap_seconds, lock, threads>>

\* Timestamp::add_nanoseconds_overflowing(timestamp, nanoseconds)
TimestampAddNanoseconds(nanoseconds) ==
    /\ call.op = "input"
    /\ call.input \in NegativeTimestamps \cup PositiveTimestamps
    /\ call' = [op |-> "timestamp_add_nanoseconds", input |-> call.input,
                arg |-> nanoseconds,
                res |-> Ok(Timestamp_add_nanoseconds_overflowing(call.input, nanoseconds))]
    /\ UNCHANGED <<overflow_checks, leap_seconds, lock, threads>>

\* NaiveDateTime::add_nanoseconds_overflowing(date_time, nanoseconds)
NaiveDateTimeAddNanoseconds(nanoseconds) ==
    /\ call.op = "input"
    /\ call.input \in NaiveDateTimes
    /\ call' = [op |-> "add_nanoseconds", input |-> call.input, arg |-> nanoseconds,
                res |-> IF overflow_checks
                           /\ NaiveDateTime_add_nanoseconds_overflows(call.input, nanoseconds)
                        THEN Panicked
                        ELSE Ok(NaiveDateTime_add_nanoseconds_overflowing(call.input,
                                                                          nanoseconds))]
    /\ UNCHANGED <<overflow_checks, leap_seconds, lock, threads>>

NextCalendar ==
    \/ \E nanoseconds \in NanosecondDeltas : TimestampAddNanoseconds(nanoseconds)
    \/ \E nanoseconds \in { 0, 1 } : NaiveDateTimeAddNanoseconds(nanoseconds)
    \/ IsLeapYear
    \/ \E days \in DayCounts : AddDays(days)
    \/ FromTimestampOfInput
    \/ NaiveDateTimeFrom
    \/ \E years \in (-MaxYears) .. MaxYears : AddYears(years)
    \/ \E months \in (-MaxMonths) .. MaxMonths : AddMonths(months)
    \/ \E z \in Zones : IntoTimezone(z)
    \/ CompareWithOther
    \/ CompareWithConverted
    \/ DaysAfterCommonEra
    \/ FromDaysAfterCommonEra
    \/ TimestampOf
    \/ FromTimestamp

SpecCalendar == InitCalendar /\ [][NextCalendar]_vars

---------------------------------------------------------------------------
(* The arithmetic of Time: the initial state draws the time, every action  *)
(* applies one presentation of one add operation to it.                    *)

MaxMultiple == 2

Units == { "hours", "minutes", "seconds", "nanoseconds" }

\* valid times with second <= 59, and the leap second 23:59:60
TimesOfDay ==
    { from_hms_nano_unchecked(h, m, s, ns) :
        h \in { 0, 1, 23 }, m \in { 0, 1, 59 }, s \in { 0, 59 }, ns \in { 0, 999999999 } }
    \cup { from_hms_unchecked(23, 59, 60) }

\* the lengths, in the unit, of the unit and of the larger units up to a day
UnitLengths(unit) ==
    CASE unit = "hours" -> { 1, 24 }
      [] unit = "minutes" -> { 1, 60, 1440 }
      [] unit = "seconds" -> { 1, 60, 3600, 86400 }
      [] unit = "nanoseconds" -> { 1000000000 }

\* up to MaxMultiple unit lengths, exact or one more, added or subtracted; a
\* nanosecond delta stays below 2^31 - 10^9, so that adding it to a nanosecond
\* field stays within the integers of TLC
Deltas(unit) ==
    IF unit = "nanoseconds"
    THEN { sign * (q * 1000000000 + e) :
             sign \in { -1, 1 }, q \in 0 .. 1, e \in 0 .. MaxMultiple }
    ELSE { sign * (q * u + e) :
             sign \in { -1, 1 }, q \in 0 .. MaxMultiple, u \in UnitLengths(unit),
             e \in 0 .. 1 }

\* the arguments of the validated constructors: valid and invalid fields,
\* sub the nanosecond, millisecond or microsecond
TimeArgs ==
    [hour : { 0, 23, 24 }, minute : { 0, 59, 60 }, second : { 0, 59, 60, 61 },
     sub : { 0, 1, 999, 1000, 4295, 999999999, 1000000000 }]

InitTime ==
    /\ overflow_checks \in BOOLEAN
    /\ leap_seconds = LeapSeconds_empty
    /\ call \in { [op |-> "input", input |-> x, arg |-> <<>>, res |-> Ok(x)]
                  : x \in TimesOfDay \cup TimeArgs }
    /\ lock = NoLock
    /\ threads = <<>>

\* one presentation of time.add_<unit>(delta); res is its outcome
TimeCall(op, unit, delta, res) ==
    /\ call.op = "input"
    /\ call.input \in TimesOfDay
    /\ call' = [op |-> op, input |-> call.input,
                arg |-> [unit |-> unit, delta |-> delta], res |-> res]
    /\ UNCHANGED <<overflow_checks, leap_seconds, lock, threads>>

AddOverflowing(unit, delta) ==
    TimeCall("add_overflowing", unit, delta,
             Ok(Time_add_overflowing(unit, call.input, delta)))

AddChecked(unit, delta) ==
    TimeCall("add_checked", unit, delta, Time_add_checked(unit, call.input, delta))

AddWrapping(unit, delta) ==
    TimeCall("add_wrapping", unit, delta, Ok(Time_add_wrapping(unit, call.input, delta)))

AddPlain(unit, delta) ==
    TimeCall("add", unit, delta, Time_add(unit, call.input, delta))

\* Time::from_hms_nano(hour, minute, second, nanosecond)
FromHmsNano ==
    /\ call.op = "input"
    /\ call.input \in TimeArgs
    /\ LET a == call.input
       IN  call' = [op |-> "from_hms_nano", input |-> a, arg |-> a,
                    res |-> from_hms_nano(a.hour, a.minute, a.second, a.sub)]
    /\ UNCHANGED <<overflow_checks, leap_seconds, lock, threads>>

\* Time::from_hms_milli(hour, minute, second, millisecond), millisecond a u16
FromHmsMilli ==
    /\ call.op = "input"
    /\ call.input \in TimeArgs
    /\ call.input.sub <= 65535
    /\ LET a == call.input
       IN  call' = [op |-> "from_hms_milli", input |-> a, arg |-> a,
                    res |-> from_hms_milli(a.hour, a.minute, a.second, a.sub)]
    /\ UNCHANGED <<overflow_checks, leap_seconds, lock, threads>>

\* Time::from_hms_micro(hour, minute, second, microsecond)
FromHmsMicro ==
    /\ call.op = "input"
    /\ call.input \in TimeArgs
    /\ call.input.sub <= 65535
    /\ LET a == call.input
       IN  call' = [op |-> "from_hms_micro", input |-> a, arg |-> a,
                    res |-> IF overflow_checks /\ from_hms_micro_overflows(a.sub)
                            THEN Panicked
                            ELSE from_hms_micro(a.hour, a.minute, a.second, a.sub)]
    /\ UNCHANGED <<overflow_checks, leap_seconds, lock, threads>>

NextTime ==
    \/ FromHmsNano
    \/ FromHmsMilli
    \/ FromHmsMicro
    \/ \E unit \in Units : \E delta \in Deltas(unit) :
        \/ AddOverflowing(unit, delta)
        \/ AddChecked(unit, delta)
        \/ AddWrapping(unit, delta)
        \/ AddPlain(unit, delta)

SpecTime == InitTime /\ [][NextTime]_vars

---------------------------------------------------------------------------
(* Properties *)

Range(seq) == { seq[i] : i \in DOMAIN seq }

Y2K == from_ymd_unchecked(2000, January, 1)

\* C1: Date::from_days_after_common_era(d.days_after_common_era()) returns a
\* Date with the year, month and day of d, for every valid Date d.
DayCountRoundTrip ==
    call.op = "from_days_after_common_era" => call.res = Ok(call.input)

\* C2: NaiveDateTime::from_timestamp(t.timestamp()) equals t for every
\* NaiveDateTime t made of a valid Date and a valid Time with second <= 59.
TimestampRoundTrip ==
    call.op = "from_timestamp" => call.res = Ok(call.input)

\* C3: for every registry and UTC instant u, with o = Tai.utc_offset(u) and
\* local = u shifted by o, Tai.offset_from_local_naive(local) returns o.
LocalResolutionInvertsUtcOffset ==
    (call.op = "offset_from_local_naive" /\ call.input # NoInput)
        => call.res.outcome
             = Ok(Tai_utc_offset(leap_seconds, DateTime_from_utc(call.input, Utc)))

\* C4: with an empty registry Tai.offset_from_local_naive returns exactly
\* -10 seconds for every local date-time whose second is not 60.
EmptyRegistryOffset ==
    (/\ call.op = "offset_from_local_naive"
     /\ leap_seconds = LeapSeconds_empty
     /\ call.arg.time.second # 60)
        => call.res.outcome = Ok(UtcOffset_from_seconds(-10))

EmptyRegistryOffsetWitness ==
    /\ call.op = "offset_from_local_naive"
    /\ leap_seconds = LeapSeconds_empty
    /\ call.arg = NaiveDateTime_new(Y2K, MIDNIGHT)
    /\ call.res.outcome = Ok(UtcOffset_from_seconds(-10))

\* C5: with the one leap second of add_leap_second(2000-01-01) registered,
\* Tai.offset_from_local_naive(2000-01-02T00:00:00) returns exactly -11
\* seconds, and the count is 1 at every pass of the fixed-point loop.
OneLeapSecondOffset ==
    (/\ call.op = "offset_from_local_naive"
     /\ leap_seconds = <<exact_time_of(Y2K)>>
     /\ call.arg = NaiveDateTime_new(from_ymd_unchecked(2000, January, 2), MIDNIGHT))
        => /\ call.res.outcome = Ok(UtcOffset_from_seconds(-11))
           /\ \A i \in DOMAIN call.res.counts : call.res.counts[i] = 1

OneLeapSecondOffsetWitness ==
    /\ call.op = "offset_from_local_naive"
    /\ leap_seconds = <<exact_time_of(Y2K)>>
    /\ call.arg = NaiveDateTime_new(from_ymd_unchecked(2000, January, 2), MIDNIGHT)
    /\ Len(call.res.counts) = 2

\* C6: after any sequence of add_leap_second calls the registry is strictly
\* increasing by UTC instant, so no two of its entries are equal.
RegistryStrictlyIncreasing ==
    \A i \in 1 .. (Len(leap_seconds) - 1) :
        DateTime_cmp(leap_seconds[i], leap_seconds[i + 1]) < 0

\* a third entry went in front of or between the two already there
RegistryStrictlyIncreasingWitness ==
    /\ call.op = "add_leap_second"
    /\ Len(call.input) = 2
    /\ Len(leap_seconds) = 3
    /\ leap_seconds[3] # exact_time_of(call.arg)

\* C7: add_leap_second(d) leaves the registry unchanged (and with it every
\* TAI offset) when midnight UTC of d is already present, otherwise adds
\* exactly that entry and keeps the others; no step removes an entry.
RegistryGrowth ==
    [][/\ Range(leap_seconds) \subseteq Range(leap_seconds')
       /\ call'.op # "add_leap_second" => leap_seconds' = leap_seconds
       /\ call'.op = "add_leap_second" =>
            LET e == exact_time_of(call'.arg)
            IN  IF e \in Range(leap_seconds)
                THEN /\ leap_seconds' = leap_seconds
                     /\ \A u \in Instants :
                            Tai_utc_offset(leap_seconds', DateTime_from_utc(u, Utc))
                              = Tai_utc_offset(leap_seconds, DateTime_from_utc(u, Utc))
                ELSE /\ Range(leap_seconds') = Range(leap_seconds) \cup {e}
                     /\ Len(leap_seconds') = Len(leap_seconds) + 1]_vars

\* the same date was inserted again into a registry that held it
RegistryGrowthWitness ==
    /\ call.op = "add_leap_second"
    /\ exact_time_of(call.arg) \in Range(call.input)
    /\ Len(call.input) >= 2
    /\ leap_seconds = call.input

\* C9: the successive leap-second counts of the fixed-point loop of
\* Tai.offset_from_local_naive form a non-decreasing sequence bounded by the
\* registry size (which is why the loop ends).
CountsNonDecreasing ==
    call.op = "offset_from_local_naive" =>
        LET counts == call.res.counts
        IN  \A i, j \in DOMAIN counts :
                /\ counts[i] <= Len(leap_seconds)
                /\ i <= j => counts[i] <= counts[j]

\* C10: Tai.utc_offset(u) is -(10 + n) seconds, n the number of registry
\* entries less than or equal to u.
UtcOffsetCountsEntries ==
    call.op = "utc_offset" =>
        LET u == DateTime_from_utc(call.arg, Utc)
            n == Cardinality({ i \in 1 .. Len(leap_seconds) :
                                 DateTime_cmp(leap_seconds[i], u) <= 0 })
        IN  call.res = Ok(UtcOffset_from_seconds(-(10 + n)))

\* the instant equals one entry, with an entry before and an entry after it
UtcOffsetCountsEntriesWitness ==
    /\ call.op = "utc_offset"
    /\ Len(leap_seconds) = 3
    /\ leap_seconds[2].utc_datetime = call.arg
    /\ call.res = Ok(UtcOffset_from_seconds(-12))

\* C11: Tai.offset_from_local_naive returns the UnexpectedLeapSecond error
\* carrying the given date-time for every local date-time whose second is 60,
\* whatever the registry holds, without taking any count of the registry and
\* leaving the registry unchanged.
LeapSecondRejected ==
    [][(call'.op = "offset_from_local_naive" /\ call'.arg.time.second = 60)
         => /\ call'.res = [outcome |-> Err([given_dt |-> call'.arg]), counts |-> <<>>]
            /\ leap_seconds' = leap_seconds]_vars

\* a second of 60 was rejected with entries in the registry
LeapSecondRejectedWitness ==
    /\ call.op = "offset_from_local_naive"
    /\ call.arg.time.second = 60
    /\ Len(leap_seconds) >= 2
    /\ call.res.outcome = Err([given_dt |-> call.arg])

\* C12: for DateTime values a and b in any zones (Utc, a fixed UtcOffset,
\* Tai), a == b exactly when their naive_utc() values are equal, a compares
\* to b as their naive_utc() values compare, equal values feed identical data
\* to the hasher, and x.into_timezone(z) == x for every zone z.
CrossZoneComparison ==
    call.op = "compare" =>
        LET a == call.arg[1]
            b == call.arg[2]
        IN  /\ call.res.eq <=> (naive_utc(a) = naive_utc(b))
            /\ call.res.partial_cmp = NaiveDateTime_cmp(naive_utc(a), naive_utc(b))
            /\ call.res.eq => call.res.hashes[1] = call.res.hashes[2]
            /\ (\E z \in Zones : b = into_timezone(a, z)) => call.res.eq

\* the same instant in two different zones compared equal
CrossZoneComparisonWitness ==
    /\ call.op = "compare"
    /\ call.arg[1].timezone = Utc
    /\ call.arg[2].timezone = UtcOffset_from_seconds(18000)
    /\ call.res.eq
    /\ call.res.partial_cmp = 0
    /\ call.res.hashes[1] = call.res.hashes[2]

\* C17: Date::add_months(d, n) returns the DayGreaterThanMaximumForMonthError
\* naming the target month, the day of d and the greatest day of the target
\* month in the target year exactly when the day of d exceeds it, and
\* otherwise the Date with the same day whose year * 12 + month index is that
\* of d plus n; the day is never rolled into the following month.
MonthAddRejectsForward ==
    call.op = "add_months" =>
        LET d == call.input
            index == d.year * 12 + (d.month - 1) + call.arg
            year == index \div 12
            month == (index % 12) + 1
            max == MaxDay(year, month)
        IN  call.res = (IF d.day > max
                        THEN Err([month |-> month, given_day |-> d.day,
                                  month_max_day |-> max])
                        ELSE Ok(from_ymd_unchecked(year, month, d.day)))

\* Date(2021, January, 31).add_months(1) fails naming February, 31 and 28
MonthAddRejectsForwardWitness ==
    /\ call.op = "add_months"
    /\ call.input = from_ymd_unchecked(2021, January, 31)
    /\ call.arg = 1
    /\ call.res = Err([month |-> February, given_day |-> 31, month_max_day |-> 28])

\* C18: for d = (y, February, 29) and n with y + n not a leap year,
\* Date::add_years(d, n) returns LeapDayNotInLeapYearError carrying the year
\* y + n; for every other valid input it returns the Date (y + n, same month,
\* same day).
LeapDayErrorNamesTargetYear ==
    call.op = "add_years" =>
        LET d == call.input
            year == d.year + call.arg
        IN  call.res = (IF d.month = February /\ d.day = 29 /\ ~is_leap_year(year)
                        THEN Err(LeapDayNotInLeapYearError(year))
                        ELSE Ok(from_ymd_unchecked(year, d.month, d.day)))

\* the seconds from midnight of a time of day
SecondsOfDay(t) == t.hour * 3600 + t.minute * 60 + t.second

\* the time of day at the given seconds from midnight, below 86_400
TimeOfDay(seconds, nanosecond) ==
    from_hms_nano_unchecked(seconds \div 3600, (seconds % 3600) \div 60, seconds % 60,
                            nanosecond)

\* the length of a unit in seconds
UnitSeconds(unit) ==
    CASE unit = "hours" -> 3600
      [] unit = "minutes" -> 60
      [] unit = "seconds" -> 1

\* C13: for every valid Time t with second <= 59 and non-negative n,
\* add_nanoseconds_overflowing(t, n) is the time of day at
\* (nanoseconds_from_midnight(t) + n) mod one day, with the flag true exactly
\* when the sum is at least one day.
NanosecondCarry ==
    (/\ call.op = "add_overflowing"
     /\ call.arg.unit = "nanoseconds"
     /\ call.arg.delta >= 0
     /\ call.input.second <= 59)
        => LET nanos == call.input.nanosecond + call.arg.delta
               total == SecondsOfDay(call.input) + (nanos \div 1000000000)
           IN  call.res = Ok(<<TimeOfDay(total % 86400, nanos % 1000000000),
                               total >= 86400>>)

\* 23:59:59.999999999 plus one nanosecond is midnight, flagged
NanosecondCarryWitness ==
    /\ call.op = "add_overflowing"
    /\ call.arg = [unit |-> "nanoseconds", delta |-> 1]
    /\ call.input = from_hms_nano_unchecked(23, 59, 59, 999999999)
    /\ call.res = Ok(<<MIDNIGHT, TRUE>>)

\* C14: for every valid Time t with second <= 59 and non-negative k,
\* add_hours_overflowing, add_minutes_overflowing and add_seconds_overflowing
\* return the time of day at (seconds from midnight of t + k unit lengths) mod
\* 86400 with the nanosecond unchanged, and the flag is true exactly when that
\* sum is 86400 or more.
UnitCarry ==
    (/\ call.op = "add_overflowing"
     /\ call.arg.unit # "nanoseconds"
     /\ call.arg.delta >= 0
     /\ call.input.second <= 59)
        => LET total == SecondsOfDay(call.input)
                          + call.arg.delta * UnitSeconds(call.arg.unit)
           IN  call.res = Ok(<<TimeOfDay(total % 86400, call.input.nanosecond),
                               total >= 86400>>)

\* C15: for every valid Time t with second <= 59 and negative delta, each
\* add_<unit>_overflowing returns the floor-mod of the total, every borrow being
\* the floor of its quotient, and the flag is true exactly when the total falls
\* before midnight.
NegativeFloor ==
    (/\ call.op = "add_overflowing"
     /\ call.arg.delta < 0
     /\ call.input.second <= 59)
        => LET nanos == IF call.arg.unit = "nanoseconds"
                        THEN call.input.nanosecond + call.arg.delta
                        ELSE call.input.nanosecond
               total == IF call.arg.unit = "nanoseconds"
                        THEN SecondsOfDay(call.input) + (nanos \div 1000000000)
                        ELSE SecondsOfDay(call.input)
                               + call.arg.delta * UnitSeconds(call.arg.unit)
           IN  call.res = Ok(<<TimeOfDay(total % 86400, nanos % 1000000000), total < 0>>)

TimestampFormula ==
    call.op = "timestamp" =>
        LET t == call.input
            days == days_after_common_era(t.date) - days_after_common_era(UNIX_EPOCH)
        IN  /\ ~seconds_from_midnight_overflows(t.time)
            /\ call.res = Ok(Timestamp_new(I64(days, SecondsOfDay(t.time)),
                                           t.time.nanosecond))

\* the date at a day index before 1970-01-01, down to -31
DateBeforeEpoch(index) == from_ymd_unchecked(1969, December, 32 + index)

\* C20: for every Timestamp with negative seconds s, from_timestamp yields the
\* date at day index floor(s / 86400) from 1970-01-01 and the time of day
\* s - 86400 * floor(s / 86400); seconds = -1 gives 1969-12-31 23:59:59.
\* (call.input.seconds holds s as floor(s / 86400) days and the rest.)
NegativeTimestampFloors ==
    call.op \in { "from_timestamp_of_input", "from" } =>
        LET s == call.input.seconds
        IN  call.res = Ok(NaiveDateTime_new(DateBeforeEpoch(s.days),
                                            TimeOfDay(s.secs, call.input.nanoseconds)))

\* the day count of the last date a 16-bit Year can hold
LastDayCount == days_after_common_era(from_ymd_unchecked(32767, December, 31))

\* C21: adding n days to a valid Date d yields the Date at day count
\* days_after_common_era(d) + n, and when that day count lies past the dates a
\* 16-bit Year can hold the operation reports it instead of returning a date
\* (Date::add_days returns a bare Date, which carries no flag).
DayAddReportsOverflow ==
    call.op = "add_days" =>
        LET total == days_after_common_era(call.input) + call.arg
        IN  IF total <= LastDayCount
            THEN /\ call.res.kind = "Ok"
                 /\ days_after_common_era(call.res.value) = total
            ELSE call.res.kind # "Ok"

\* C22: Time::from_hms_nano(h, m, s, ns) returns InvalidTimeError carrying the
\* four given values exactly when h >= 24, or m >= 60, or s > 60, or
\* ns >= 1_000_000_000, or s = 60 with (h, m) # (23, 59); for every other
\* input it returns Ok.
TimeValidation ==
    call.op = "from_hms_nano" =>
        LET a == call.input
            invalid == \/ a.hour >= 24
                       \/ a.minute >= 60
                       \/ a.second > 60
                       \/ a.sub >= 1000000000
                       \/ (a.second = 60 /\ <<a.hour, a.minute>> # <<23, 59>>)
        IN  IF invalid
            THEN call.res = Err([hour |-> a.hour, minute |-> a.minute,
                                 second |-> a.second, nanosecond |-> a.sub])
            ELSE call.res.kind = "Ok"

\* a leap second away from 23:59 was rejected
TimeValidationWitness ==
    /\ call.op = "from_hms_nano"
    /\ call.input = [hour |-> 23, minute |-> 0, second |-> 60, sub |-> 1]
    /\ call.res = Err([hour |-> 23, minute |-> 0, second |-> 60, nanosecond |-> 1])

\* C23: Year::is_leap_year(y) is true exactly when y is divisible by 4 and
\* (not divisible by 100 or divisible by 400), for every 16-bit year including
\* zero and negative years; it is true for 2000 and 2020 and false for 1900,
\* 2021, 2022 and 2100.
LeapYearRule ==
    call.op = "is_leap_year" =>
        LET y == call.input.year
        IN  /\ call.res.value <=> (y % 4 = 0 /\ (y % 100 # 0 \/ y % 400 = 0))
            /\ y \in { 2000, 2020 } => call.res.value
            /\ y \in { 1900, 2021, 2022, 2100 } => ~call.res.value

\* a negative year divisible by 400 is a leap year
LeapYearRuleWitness ==
    /\ call.op = "is_leap_year"
    /\ call.input.year = -400
    /\ call.res = Ok(TRUE)

\* C24: for every registry and every local date-time with second # 60, the
\* passes of the fixed-point loop of Tai.offset_from_local_naive number at most
\* the registry entries later than the local date-time taken as a UTC instant,
\* the one recount that confirms a count not included: a query with no later
\* entry recounts at most once and keeps its seed count.
ConvergenceBound ==
    (call.op = "offset_from_local_naive" /\ call.arg.time.second # 60) =>
        LET counts == call.res.counts
            later == Cardinality({ i \in 1 .. Len(leap_seconds) :
                         DateTime_cmp(leap_seconds[i],
                                      DateTime_from_utc(call.arg, Utc)) > 0 })
        IN  /\ Len(counts) - 1 <= later + 1
            /\ later = 0 => counts[Len(counts)] = counts[1]

\* the invariant of Time: every field in its range, second 60 only at 23:59
ValidTime(t) ==
    /\ t.hour \in 0 .. 23
    /\ t.minute \in 0 .. 59
    /\ t.second \in 0 .. 60
    /\ t.second = 60 => (t.hour = 23 /\ t.minute = 59)
    /\ t.nanosecond \in 0 .. 999999999

\* C27: from every valid Time, 23:59:60 included, add_hours_overflowing,
\* add_minutes_overflowing, add_seconds_overflowing and
\* add_nanoseconds_overflowing with any delta return a valid Time: hour 0..=23,
\* minute 0..=59, second 0..=60 with 60 only at 23:59, nanosecond below 10^9; a
\* total that is an exact negative multiple of 24 hours gives hour 0, not 24.
TimeFieldsStayValid ==
    (call.op = "add_overflowing" /\ ValidTime(call.input)) =>
        ValidTime(call.res.value[1])

\* C28: the validated constructors keep the sub-second part: from_hms_nano
\* returns the Time of its hour, minute, second and nanosecond; from_hms_milli
\* with millisecond <= 999 and from_hms_micro with microsecond <= 999_999
\* return the Time of the matching unchecked constructor, whose millisecond()
\* or microsecond() is the argument.
SubSecondKept ==
    LET a == call.input
        valid == ValidTime(from_hms_unchecked(a.hour, a.minute, a.second))
    IN  /\ (call.op = "from_hms_nano" /\ valid /\ a.sub <= 999999999) =>
              /\ call.res = Ok(from_hms_nano_unchecked(a.hour, a.minute, a.second, a.sub))
              /\ Time_nanosecond(call.res.value) = a.sub
        /\ (call.op = "from_hms_milli" /\ valid /\ a.sub <= 999) =>
              /\ call.res = Ok(from_hms_milli_unchecked(a.hour, a.minute, a.second, a.sub))
              /\ Time_millisecond(call.res.value) = a.sub
        /\ (call.op = "from_hms_micro" /\ valid /\ a.sub <= 999999) =>
              /\ call.res = Ok(from_hms_micro_unchecked(a.hour, a.minute, a.second, a.sub))
              /\ Time_microsecond(call.res.value) = a.sub

\* C29: Timestamp::add_nanoseconds_overflowing(n) on (s, ns) returns the
\* seconds s + floor((ns + n) / 10^9), the nanoseconds (ns + n) mod 10^9 and
\* the flag false; hence NaiveDateTime::add_nanoseconds_overflowing(t, 0)
\* returns t.
NanosecondAddition ==
    /\ call.op = "timestamp_add_nanoseconds" =>
          LET total == call.input.nanoseconds + call.arg
          IN  call.res = Ok(<<Timestamp_new(I64_add(call.input.seconds,
                                                     total \div 1000000000),
                                            total % 1000000000), FALSE>>)
    /\ (call.op = "add_nanoseconds" /\ call.arg = 0) =>
          call.res = Ok(<<call.input, FALSE>>)

\* C30: for every registry, every zone z and every DateTime x in z whose UTC
\* second is not 60, x.add_seconds_overflowing(0) returns (y, false) with
\* y == x and y in the zone z, and does not panic, also when x is next to a
\* registered leap second.
ZeroAdditionIdentity ==
    (/\ call.op = "add_seconds_overflowing"
     /\ call.arg = 0
     /\ call.input.utc_datetime.time.second # 60)
        => /\ call.res.kind = "Ok"
           /\ DateTime_eq(call.res.value[1], call.input)
           /\ call.res.value[1].timezone = call.input.timezone
           /\ call.res.value[2] = FALSE

---------------------------------------------------------------------------
(* The registry under its RwLock, with the calls of several threads        *)
(* interleaved at the lock operations and at every pass of the two scans.  *)
(* lock.writer is the writer bit of the lock: write() sets it, then waits  *)
(* for the readers to leave; read() waits while it is set.                 *)

NumThreads == 2

ThreadIds == 1 .. NumThreads

ThreadDays == { Y2K, from_ymd_unchecked(2000, February, 1) }

ThreadInstants ==
    { NaiveDateTime_new(from_ymd_unchecked(2000, 3, 1), MIDNIGHT),
      NaiveDateTime_new(Y2K, from_hms_unchecked(23, 59, 59)),
      NaiveDateTime_new(Y2K, from_hms_unchecked(23, 59, 60)) }

\* the leap day, the DateTime and the addends of the threads that call the
\* DateTime methods
LockDay == Y2K

LockDateTimes ==
    { DateTime_from_utc(NaiveDateTime_new(from_ymd_unchecked(2000, 3, 1), MIDNIGHT), Tai) }

LockDeltas == { 0 }

(* The conversions the steps of the threads apply, tabulated over the      *)
(* date-times and timestamps the threads pass to them: a table is          *)
(* evaluated once, and a step looks its result up.                         *)

\* the counts a scan of the registry can return
ThreadCounts == 0 .. Cardinality(ThreadDays \cup { LockDay })

\* the seconds a thread adds to a date-time: a count, or an offset either way
ThreadShifts ==
    ThreadCounts \cup { n + TAI_BASE_OFFSET : n \in ThreadCounts }
                 \cup { -(n + TAI_BASE_OFFSET) : n \in ThreadCounts }

\* the local times of self.as_tai().to_naive_overflowing()
ThreadTaiNaives ==
    { NaiveDateTime_add_seconds_overflowing(x.utc_datetime, -(n + TAI_BASE_OFFSET))[1] :
        x \in LockDateTimes, n \in ThreadCounts }

\* NaiveDateTime::timestamp
timestamp_table ==
    [naive \in ThreadTaiNaives |->
        [value |-> timestamp(naive), overflows |-> timestamp_overflows(naive)]]

\* the sums of Timestamp::add_seconds_overflowing and add_nanoseconds_overflowing
timestamp_add_table ==
    [p \in { <<timestamp(naive), outer, delta>> :
                 naive \in ThreadTaiNaives,
                 outer \in { "add_seconds_overflowing", "add_nanoseconds_overflowing" },
                 delta \in LockDeltas } |->
        IF p[2] = "add_nanoseconds_overflowing"
        THEN Timestamp_add_nanoseconds_overflowing(p[1], p[3])
        ELSE Timestamp_add_seconds_overflowing(p[1], p[3])]

\* NaiveDateTime::from_timestamp
from_timestamp_table ==
    [ts \in { timestamp_add_table[p][1] : p \in DOMAIN timestamp_add_table } |->
        [value |-> from_timestamp(ts), overflows |-> from_timestamp_overflows(ts)]]

\* the date-times a thread shifts: the arguments of the calls and the local
\* times DateTime::from_local is called with
ThreadDateTimes ==
    ThreadInstants \cup { x.utc_datetime : x \in LockDateTimes }
        \cup { from_timestamp_table[ts].value : ts \in DOMAIN from_timestamp_table }

\* NaiveDateTime::add_seconds_overflowing
add_seconds_table ==
    [p \in { <<date_time, seconds>> :
                 date_time \in ThreadDateTimes, seconds \in ThreadShifts } |->
        [value |-> NaiveDateTime_add_seconds_overflowing(p[1], p[2])[1],
         overflows |-> NaiveDateTime_add_seconds_overflows(p[1], p[2])]]

NoResult == [kind |-> "none", value |-> <<>>]

\* a thread outside any call, res being the outcome of its last call
Idle(res) ==
    [pc |-> "idle", op |-> "none", arg |-> NoInput, utc_dt |-> NoInput, i |-> 0,
     seconds |-> 0, past_leap_seconds |-> 0, prev_pls |-> 0, seeded |-> FALSE,
     before |-> <<>>, res |-> res,
     \* the DateTime method that made the call of the time zone, its self,
     \* its addend and the flag of its timestamp addition
     outer |-> "none", self |-> NoInput, delta |-> 0, tai_timestamp |-> NoInput,
     overflow |-> FALSE]

InitThreads ==
    /\ overflow_checks \in BOOLEAN
    /\ leap_seconds = LeapSeconds_empty
    /\ call = NoCall
    /\ lock = NoLock
    /\ threads = [t \in ThreadIds |-> Idle(NoResult)]

\* mutant: read() does not wait for the writer
Mut_read_granted_always(l) == TRUE

\* RwLock::read() returns: no writer holds or awaits the lock
read_granted(l) == ~l.writer

\* mutant: write() does not wait for the readers to leave
Mut_write_granted_always(l) == TRUE

\* RwLock::write() returns: the writer bit is this thread's and no reader is left
write_granted(l) == l.readers = 0

\* mutant: a read guard goes out of scope and the lock keeps counting it
Mut_keep_read_guard(l) == l

\* a RwLockReadGuard is dropped: the lock counts one reader fewer
drop_read_guard(l) == [l EXCEPT !.readers = l.readers - 1]

\* the thread t moves to the record r
Goto(t, r) == threads' = [threads EXCEPT ![t] = r]

(* add_leap_second(day) *)

CallAddLeapSecond(t, day) ==
    /\ threads[t].pc = "idle"
    /\ Goto(t, [Idle(NoResult) EXCEPT !.pc = "write", !.op = "add_leap_second",
                                      !.arg = day])
    /\ UNCHANGED <<overflow_checks, leap_seconds, call, lock>>

\* GLOBAL_LEAP_SECONDS.write(): take the writer bit
WriteLock(t) ==
    /\ threads[t].pc = "write"
    /\ ~lock.writer
    /\ lock' = [lock EXCEPT !.writer = TRUE]
    /\ Goto(t, [threads[t] EXCEPT !.pc = "write_wait"])
    /\ UNCHANGED <<overflow_checks, leap_seconds, call>>

\* GLOBAL_LEAP_SECONDS.write(): the readers have left; `let mut i = 0`
WriteGranted(t) ==
    /\ threads[t].pc = "write_wait"
    /\ write_granted(lock)
    /\ Goto(t, [threads[t] EXCEPT !.pc = "scan", !.i = 1, !.before = leap_seconds])
    /\ UNCHANGED <<overflow_checks, leap_seconds, call, lock>>

\* one pass of `while i < self.0.len()` with its match
ScanStep(t) ==
    LET self == threads[t]
        exact_time == exact_time_of(self.arg)
    IN  /\ self.pc = "scan"
        /\ IF self.i > Len(leap_seconds)
           THEN Goto(t, [self EXCEPT !.pc = "insert"])
           ELSE IF DateTime_cmp(leap_seconds[self.i], exact_time) > 0
           THEN Goto(t, [self EXCEPT !.pc = "insert"])
           ELSE IF DateTime_cmp(leap_seconds[self.i], exact_time) = 0
           THEN Goto(t, [self EXCEPT !.pc = "write_unlock"])
           ELSE Goto(t, [self EXCEPT !.i = self.i + 1])
        /\ UNCHANGED <<overflow_checks, leap_seconds, call, lock>>

\* self.0.insert(i, exact_time)
Insert(t) ==
    /\ threads[t].pc = "insert"
    /\ leap_seconds' = Vec_insert(leap_seconds, threads[t].i, exact_time_of(threads[t].arg))
    /\ Goto(t, [threads[t] EXCEPT !.pc = "write_unlock"])
    /\ UNCHANGED <<overflow_checks, call, lock>>

\* the write guard is dropped when add_leap_second returns
WriteUnlock(t) ==
    /\ threads[t].pc = "write_unlock"
    /\ lock' = [lock EXCEPT !.writer = FALSE]
    /\ Goto(t, Idle(Ok(<<>>)))
    /\ UNCHANGED <<overflow_checks, leap_seconds, call>>

(* Tai.utc_offset(date_time) and Tai.offset_from_local_naive(date_time) *)

CallUtcOffset(t, date_time) ==
    /\ threads[t].pc = "idle"
    /\ Goto(t, [Idle(NoResult) EXCEPT !.pc = "read", !.op = "utc_offset",
                                      !.arg = date_time,
                                      !.utc_dt = DateTime_from_utc(date_time, Utc)])
    /\ UNCHANGED <<overflow_checks, leap_seconds, call, lock>>

\* the call with second == 60 returns the error before it touches the lock
CallOffsetFromLocalNaive(t, date_time) ==
    /\ threads[t].pc = "idle"
    /\ IF date_time.time.second = 60
       THEN Goto(t, Idle(Err([given_dt |-> date_time])))
       ELSE Goto(t, [Idle(NoResult) EXCEPT !.pc = "read",
                                           !.op = "offset_from_local_naive",
                                           !.arg = date_time,
                                           !.utc_dt = DateTime_from_utc(date_time, Utc)])
    /\ UNCHANGED <<overflow_checks, leap_seconds, call, lock>>

\* GLOBAL_LEAP_SECONDS.read(), then the first scan begins
ReadLock(t) ==
    /\ threads[t].pc = "read"
    /\ read_granted(lock)
    /\ lock' = [lock EXCEPT !.readers = lock.readers + 1]
    /\ Goto(t, [threads[t] EXCEPT !.pc = "count", !.i = 1, !.seconds = 0])
    /\ UNCHANGED <<overflow_checks, leap_seconds, call>>

\* one pass of the `for` loop of leap_seconds_before_inclusive
CountStep(t) ==
    LET self == threads[t]
    IN  /\ self.pc = "count"
        /\ IF self.i > Len(leap_seconds)
           THEN Goto(t, [self EXCEPT !.pc = "counted"])
           ELSE IF DateTime_cmp(leap_seconds[self.i], self.utc_dt) > 0
           THEN Goto(t, [self EXCEPT !.pc = "counted"])
           ELSE Goto(t, [self EXCEPT !.i = self.i + 1, !.seconds = self.seconds + 1])
        /\ UNCHANGED <<overflow_checks, leap_seconds, call, lock>>

\* utc_offset returns and drops its read guard
UtcOffsetReturn(t) ==
    LET self == threads[t]
    IN  /\ self.pc = "counted"
        /\ self.op = "utc_offset"
        /\ self.outer = "none"
        /\ lock' = drop_read_guard(lock)
        /\ Goto(t, Idle(Ok(UtcOffset_from_seconds(-(self.seconds + TAI_BASE_OFFSET)))))
        /\ UNCHANGED <<overflow_checks, leap_seconds, call>>

\* the scan's result is assigned to past_leap_seconds (before the loop with
\* `prev_pls = 0`, inside the loop after `prev_pls = past_leap_seconds`)
Counted(t) ==
    LET self == threads[t]
    IN  /\ self.pc = "counted"
        /\ self.op = "offset_from_local_naive"
        /\ Goto(t, [self EXCEPT !.pc = "loop", !.past_leap_seconds = self.seconds,
                                !.prev_pls = IF self.seeded THEN self.prev_pls ELSE 0,
                                !.seeded = TRUE])
        /\ UNCHANGED <<overflow_checks, leap_seconds, call, lock>>

\* `while past_leap_seconds != prev_pls` holds: the body up to the next scan,
\* or a panic in add_seconds_overflowing that unwinds and drops the guard
LoopBody(t) ==
    LET self == threads[t]
        sum == add_seconds_table[<<self.arg, self.past_leap_seconds>>]
        ndt == sum.value
    IN  /\ self.pc = "loop"
        /\ self.past_leap_seconds # self.prev_pls
        /\ IF overflow_checks /\ sum.overflows
           THEN /\ lock' = drop_read_guard(lock)
                /\ Goto(t, [Idle(Panicked) EXCEPT !.pc = "panicked"])
           ELSE /\ lock' = lock
                /\ Goto(t, [self EXCEPT !.pc = "count", !.i = 1, !.seconds = 0,
                                        !.prev_pls = self.past_leap_seconds,
                                        !.utc_dt = DateTime_from_utc(ndt, Utc)])
        /\ UNCHANGED <<overflow_checks, leap_seconds, call>>

\* the loop ends: offset_from_local_naive returns and drops its read guard
LoopExit(t) ==
    LET self == threads[t]
    IN  /\ self.pc = "loop"
        /\ self.past_leap_seconds = self.prev_pls
        /\ self.outer = "none"
        /\ lock' = drop_read_guard(lock)
        /\ Goto(t, Idle(Ok(UtcOffset_from_seconds(
                               -(self.past_leap_seconds + TAI_BASE_OFFSET)))))
        /\ UNCHANGED <<overflow_checks, leap_seconds, call>>

(* DateTime::offset, tai_timestamp, add_seconds_overflowing and              *)
(* add_nanoseconds_overflowing: the calls of the time zone they make       *)

\* self.timezone.utc_offset(self.as_utc()): only Tai reads the registry
CallOffset(t, x) ==
    /\ threads[t].pc = "idle"
    /\ IF x.timezone = Tai
       THEN Goto(t, [Idle(NoResult) EXCEPT !.pc = "read", !.op = "utc_offset",
                                           !.arg = x.utc_datetime,
                                           !.utc_dt = as_utc(x)])
       ELSE Goto(t, Idle(Ok(UtcOffset_from_seconds(0))))
    /\ UNCHANGED <<overflow_checks, leap_seconds, call, lock>>

\* self.as_tai().to_naive_overflowing() begins with offset() of the DateTime<Tai>
CallDateTime(t, outer, x, delta) ==
    /\ threads[t].pc = "idle"
    /\ Goto(t, [Idle(NoResult) EXCEPT !.pc = "read", !.op = "utc_offset",
                                      !.arg = x.utc_datetime,
                                      !.utc_dt = as_utc(into_timezone(x, Tai)),
                                      !.outer = outer, !.self = x, !.delta = delta])
    /\ UNCHANGED <<overflow_checks, leap_seconds, call, lock>>

CallTaiTimestamp(t, x) == CallDateTime(t, "tai_timestamp", x, 0)

CallAddSecondsOverflowing(t, x, seconds) ==
    CallDateTime(t, "add_seconds_overflowing", x, seconds)

CallAddNanosecondsOverflowing(t, x, nanoseconds) ==
    CallDateTime(t, "add_nanoseconds_overflowing", x, nanoseconds)

\* utc_offset has returned to to_naive_overflowing and dropped its guard:
\* the rest of tai_timestamp
TaiTimestampReturn(t) ==
    LET self == threads[t]
        offset == UtcOffset_from_seconds(-(self.seconds + TAI_BASE_OFFSET))
    IN  /\ self.pc = "counted"
        /\ self.op = "utc_offset"
        /\ self.outer # "none"
        /\ lock' = drop_read_guard(lock)
        /\ LET naive == add_seconds_table[<<self.arg, seconds_ahead(offset)>>]
               tai_timestamp == timestamp_table[naive.value]
           IN  IF overflow_checks /\ (naive.overflows \/ tai_timestamp.overflows)
               THEN Goto(t, [Idle(Panicked) EXCEPT !.pc = "panicked"])
               ELSE IF self.outer = "tai_timestamp"
               THEN Goto(t, Idle(Ok(tai_timestamp.value)))
               ELSE Goto(t, [Idle(NoResult) EXCEPT !.pc = "add",
                                                   !.outer = self.outer, !.self = self.self,
                                                   !.delta = self.delta,
                                                   !.tai_timestamp = tai_timestamp.value])
        /\ UNCHANGED <<overflow_checks, leap_seconds, call>>

\* the addition to the timestamp and NaiveDateTime::from_timestamp of the sum
AddToTimestamp(t) ==
    LET self == threads[t]
    IN  /\ self.pc = "add"
        /\ LET sum == timestamp_add_table[<<self.tai_timestamp, self.outer, self.delta>>]
               tai_naive_dt == from_timestamp_table[sum[1]]
           IN  IF overflow_checks /\ tai_naive_dt.overflows
               THEN Goto(t, [Idle(Panicked) EXCEPT !.pc = "panicked"])
               ELSE Goto(t, [self EXCEPT !.pc = "from_local",
                                         !.arg = tai_naive_dt.value,
                                         !.overflow = sum[2]])
        /\ UNCHANGED <<overflow_checks, leap_seconds, call, lock>>

\* DateTime::from_local(tai_naive_dt, Tai) calls offset_from_local_naive; its
\* error is returned by `?` and panics in the unwrap of the addition
FromLocal(t) ==
    LET self == threads[t]
    IN  /\ self.pc = "from_local"
        /\ IF self.arg.time.second = 60
           THEN Goto(t, [Idle(Panicked) EXCEPT !.pc = "panicked"])
           ELSE Goto(t, [self EXCEPT !.pc = "read", !.op = "offset_from_local_naive",
                                     !.utc_dt = DateTime_from_utc(self.arg, Utc)])
        /\ UNCHANGED <<overflow_checks, leap_seconds, call, lock>>

\* offset_from_local_naive has returned to from_local and dropped its guard:
\* the rest of from_local and of the addition
FromLocalReturn(t) ==
    LET self == threads[t]
        offset == UtcOffset_from_seconds(-(self.past_leap_seconds + TAI_BASE_OFFSET))
        utc_datetime == add_seconds_table[<<self.arg, -seconds_ahead(offset)>>]
        tai_dt == DateTime_from_utc(utc_datetime.value, Tai)
    IN  /\ self.pc = "loop"
        /\ self.past_leap_seconds = self.prev_pls
        /\ self.outer # "none"
        /\ lock' = drop_read_guard(lock)
        /\ IF overflow_checks /\ utc_datetime.overflows
           THEN Goto(t, [Idle(Panicked) EXCEPT !.pc = "panicked"])
           ELSE Goto(t, Idle(Ok(<<into_timezone(tai_dt, self.self.timezone),
                                  self.overflow>>)))
        /\ UNCHANGED <<overflow_checks, leap_seconds, call>>

NextThreads ==
    \E t \in ThreadIds :
        \/ \E day \in ThreadDays : CallAddLeapSecond(t, day)
        \/ WriteLock(t)
        \/ WriteGranted(t)
        \/ ScanStep(t)
        \/ Insert(t)
        \/ WriteUnlock(t)
        \/ \E u \in ThreadInstants : CallUtcOffset(t, u)
        \/ \E local \in ThreadInstants : CallOffsetFromLocalNaive(t, local)
        \/ ReadLock(t)
        \/ CountStep(t)
        \/ UtcOffsetReturn(t)
        \/ Counted(t)
        \/ LoopBody(t)
        \/ LoopExit(t)

SpecThreads == InitThreads /\ [][NextThreads]_vars

(* The same threads with the DateTime methods among their calls.  A step   *)
(* of a thread inside a call is taken eventually if it stays possible; the *)
(* lock is fair (parking_lot hands a released lock to the thread that has  *)
(* waited longest), so a read() or write() that is possible again and      *)
(* again is granted eventually.                                            *)

\* a step of the thread t inside the call it has begun
Step(t) ==
    \/ WriteGranted(t)
    \/ ScanStep(t)
    \/ Insert(t)
    \/ WriteUnlock(t)
    \/ CountStep(t)
    \/ UtcOffsetReturn(t)
    \/ Counted(t)
    \/ LoopBody(t)
    \/ LoopExit(t)
    \/ TaiTimestampReturn(t)
    \/ AddToTimestamp(t)
    \/ FromLocal(t)
    \/ FromLocalReturn(t)

NextDateTimeThreads ==
    \E t \in ThreadIds :
        \/ CallAddLeapSecond(t, LockDay)
        \/ \E x \in LockDateTimes : CallUtcOffset(t, x.utc_datetime)
        \/ \E x \in LockDateTimes : CallOffsetFromLocalNaive(t, x.utc_datetime)
        \/ \E x \in LockDateTimes : CallOffset(t, x)
        \/ \E x \in LockDateTimes : CallTaiTimestamp(t, x)
        \/ \E x \in LockDateTimes, seconds \in LockDeltas :
               CallAddSecondsOverflowing(t, x, seconds)
        \/ \E x \in LockDateTimes, nanoseconds \in LockDeltas :
               CallAddNanosecondsOverflowing(t, x, nanoseconds)
        \/ WriteLock(t)
        \/ ReadLock(t)
        \/ Step(t)

SpecDateTimeThreads ==
    /\ InitThreads
    /\ [][NextDateTimeThreads]_vars
    /\ \A t \in ThreadIds : /\ WF_vars(Step(t))
                            /\ SF_vars(ReadLock(t) \/ WriteLock(t))

\* C8: no reader is inside its critical section while a writer is inside
\* its own, and every count a reader obtains is the number of entries <= its
\* instant in the registry before or after the insertion in flight.
ReaderInside(t) == threads[t].pc \in {"count", "counted", "loop"}

WriterInside(t) == threads[t].pc \in {"scan", "insert", "write_unlock"}

WriterInFlight(t) == threads[t].pc \in {"write", "write_wait"} \/ WriterInside(t)

\* the registry before and after the insertion of the writer t
BeforeInsertion(t) == IF WriterInside(t) THEN threads[t].before ELSE leap_seconds

AfterInsertion(t) ==
    IF exact_time_of(threads[t].arg) \in Range(BeforeInsertion(t))
    THEN BeforeInsertion(t)
    ELSE LET e == exact_time_of(threads[t].arg)
             below == SelectSeq(BeforeInsertion(t), LAMBDA x : DateTime_cmp(x, e) < 0)
             above == SelectSeq(BeforeInsertion(t), LAMBDA x : DateTime_cmp(x, e) > 0)
         IN  below \o <<e>> \o above

EntriesUpTo(registry, date_time) ==
    Cardinality({ i \in 1 .. Len(registry) : DateTime_cmp(registry[i], date_time) <= 0 })

ConcurrentRegistrySafety ==
    /\ \A r, w \in ThreadIds : ~(ReaderInside(r) /\ WriterInside(w))
    /\ \A w1, w2 \in ThreadIds : (WriterInside(w1) /\ WriterInside(w2)) => w1 = w2
    /\ \A r \in ThreadIds : threads[r].pc = "counted" =>
          /\ threads[r].seconds = EntriesUpTo(leap_seconds, threads[r].utc_dt)
          /\ \A w \in ThreadIds : WriterInFlight(w) =>
                threads[r].seconds
                    \in { EntriesUpTo(BeforeInsertion(w), threads[r].utc_dt),
                          EntriesUpTo(AfterInsertion(w), threads[r].utc_dt) }

\* a reader has counted an entry while a writer waits for it to leave
ConcurrentRegistrySafetyWitness ==
    \E r, w \in ThreadIds :
        /\ threads[r].pc = "counted"
        /\ threads[r].seconds = 1
        /\ threads[w].pc = "write_wait"
        /\ AfterInsertion(w) # BeforeInsertion(w)

\* the thread t is inside a call of offset_from_local_naive, between its
\* read() and the drop of its guard
Resolving(t) == ReaderInside(t) /\ threads[t].op = "offset_from_local_naive"

\* C25: a call of Tai.offset_from_local_naive holds the shared lock from before
\* its seed count until after its last count, and no step changes the registry
\* in between, so all its counts are over the same registry content, also
\* while add_leap_second calls of other threads are pending.
SnapshotConsistency ==
    [][\A t \in ThreadIds :
          Resolving(t) => /\ lock.readers >= 1
                          /\ leap_seconds' = leap_seconds]_vars

\* a resolution is between two counts while a writer waits with a new entry
SnapshotConsistencyWitness ==
    \E r, w \in ThreadIds :
        /\ Resolving(r)
        /\ threads[r].pc = "count"
        /\ threads[r].seeded
        /\ threads[w].pc = "write_wait"
        /\ exact_time_of(threads[w].arg) \notin Range(leap_seconds)

\* the thread t has begun a call that has neither returned nor panicked
Unfinished(t) == threads[t].pc \notin {"idle", "panicked"}

\* the thread t waits in read() or write() and the lock is not granted
Blocked(t) ==
    \/ threads[t].pc = "read" /\ ~read_granted(lock)
    \/ threads[t].pc = "write" /\ lock.writer
    \/ threads[t].pc = "write_wait" /\ ~write_granted(lock)

\* the thread t holds a guard of the lock
HoldsGuard(t) == ReaderInside(t) \/ WriterInside(t)

\* every guard the lock counts belongs to a thread inside its critical
\* section, so a thread that requests the lock holds none
GuardsAccounted ==
    /\ lock.readers = Cardinality({ t \in ThreadIds : ReaderInside(t) })
    /\ lock.writer = (\E t \in ThreadIds : threads[t].pc = "write_wait" \/ WriterInside(t))

NotAllBlocked ==
    (\E t \in ThreadIds : Unfinished(t)) =>
        (\E t \in ThreadIds : Unfinished(t) /\ ~Blocked(t))

\* C26: no operation requests the registry lock while its thread holds it, no
\* state is reachable in which every unfinished thread is blocked, and under
\* fair scheduling every call that has begun returns or panics: every thread
\* is outside a call again and again.
NoSelfDeadlock ==
    /\ [](GuardsAccounted /\ NotAllBlocked)
    /\ \A t \in ThreadIds : []<>~Unfinished(t)

\* one thread waits in write() for a reader that is inside the second lock
\* request of a DateTime addition
NoSelfDeadlockWitness ==
    \E r, w \in ThreadIds :
        /\ Resolving(r)
        /\ threads[r].outer = "add_seconds_overflowing"
        /\ threads[w].pc = "write_wait"

=============================================================================
